--------------------------- MODULE LevelDBFiles ---------------------------
(***************************************************************************)
(* What the operators of LevelDB do to its files.  Which files a version    *)
(* needs: the records of the manifest, the inputs of a compaction and the   *)
(* logs a recovery replays.  Which keys they span: the order of the         *)
(* internal keys, the bounds of a table, the inputs and the outputs of a    *)
(* compaction, and the levels a record leaves.  What the log reader gives   *)
(* back of what the log writer wrote, and what Recover makes of it.  The    *)
(* folds are taken apart with an induction over sets of naturals.           *)
(***************************************************************************)
EXTENDS LevelDB, WellFoundedInduction, FiniteSetTheorems, SequenceTheorems, TLAPS

(* Version v has finite levels, and the table of each of its files is one   *)
(* of on (the numbers of the tables on disk).                               *)
VersionOK(v, on) == \A l \in Level : IsFiniteSet(v[l]) /\ \A f \in v[l] : f.number \in on

(* The files a manifest record adds are finitely many and on disk.          *)
EditOK(e, on) == IsFiniteSet(e.add) /\ \A a \in e.add : a[2].number \in on

(* So are the files of a compaction's input version and its outputs.        *)
CompOK(c, on) == /\ VersionOK(c.version, on)
                 /\ IsFiniteSet(c.outs) /\ \A f \in c.outs : f.number \in on

(***************************************************************************)
(* Induction, and the fold of the manifest's records.                       *)
(***************************************************************************)

(* Induction on a set of naturals: WFMin for the order of Nat, with no      *)
(* operator to instantiate.                                                 *)
LEMMA NatSetInduction ==
  ASSUME NEW S, 0 \in S, \A n \in Nat : n \in S => n + 1 \in S
  PROVE  Nat \subseteq S
<1> DEFINE T == Nat \ S
           R == OpToRel(<, Nat)
<1>1. SUFFICES ASSUME T # {} PROVE FALSE
  OBVIOUS
<1>2. PICK x \in T : \A y \in T : ~ (<<y, x>> \in R)
  <2>1. IsWellFoundedOn(R, Nat) BY NatLessThanWellFounded
  <2>2. T \subseteq Nat OBVIOUS
  <2> HIDE DEF T, R
  <2> QED BY <2>1, <2>2, <1>1, WFMin, Zenon
<1>3. \A y \in Nat : y < x => y \in S BY <1>2 DEF OpToRel
<1>4. x \in Nat /\ x # 0 /\ x \notin S OBVIOUS
<1>5. x - 1 \in Nat /\ x - 1 < x /\ x - 1 + 1 = x BY <1>4
<1>6. x - 1 \in S BY <1>3, <1>5
<1> QED BY <1>4, <1>5, <1>6

(* The greatest element of a set that ends in m + 1.                        *)
LEMMA MaxIsLast ==
  ASSUME NEW m \in Nat, NEW s, s \subseteq 1 .. m + 1, m + 1 \in s
  PROVE  Max(s) = m + 1
<1>1. m + 1 \in s /\ \A y \in s : m + 1 >= y OBVIOUS
<1>2. \A x \in s : (\A y \in s : x >= y) => x = m + 1 OBVIOUS
<1> QED BY <1>1, <1>2 DEF Max

(* f folds Applied over the first m records of es, for every set of them. *)
FoldsApplied(f, st, es, m) ==
  f = [s \in SUBSET (1 .. m) |->
         IF s = {} THEN st ELSE Applied(f[s \ {Max(s)}], es[Max(s)])]

(* A fold over m records gives one over m + 1.                              *)
LEMMA FoldsAppliedNext ==
  ASSUME NEW st, NEW es, NEW m \in Nat, NEW f, FoldsApplied(f, st, es, m)
  PROVE  \E g : FoldsApplied(g, st, es, m + 1)
<1> DEFINE g == [s \in SUBSET (1 .. m + 1) |->
                   IF m + 1 \in s THEN Applied(f[s \ {m + 1}], es[m + 1]) ELSE f[s]]
           h == [s \in SUBSET (1 .. m + 1) |->
                   IF s = {} THEN st ELSE Applied(g[s \ {Max(s)}], es[Max(s)])]
<1>1. ASSUME NEW s \in SUBSET (1 .. m + 1) PROVE g[s] = h[s]
  <2>1. CASE m + 1 \in s
    <3>1. Max(s) = m + 1 BY <2>1, MaxIsLast
    <3>2. s \ {m + 1} \in SUBSET (1 .. m + 1) /\ m + 1 \notin s \ {m + 1} OBVIOUS
    <3>3. g[s \ {m + 1}] = f[s \ {m + 1}] BY <3>2
    <3>4. h[s] = Applied(g[s \ {m + 1}], es[m + 1]) BY <3>1, <2>1
    <3>5. g[s] = Applied(f[s \ {m + 1}], es[m + 1]) BY <2>1
    <3> HIDE DEF g, h
    <3> QED BY <3>3, <3>4, <3>5
  <2>2. CASE m + 1 \notin s
    <3>1. s \in SUBSET (1 .. m) BY <2>2
    <3>2. g[s] = f[s] BY <2>2
    <3>3. f[s] = IF s = {} THEN st ELSE Applied(f[s \ {Max(s)}], es[Max(s)])
      BY <3>1 DEF FoldsApplied
    <3>4. s \ {Max(s)} \in SUBSET (1 .. m + 1) /\ m + 1 \notin s \ {Max(s)} BY <2>2
    <3>5. g[s \ {Max(s)}] = f[s \ {Max(s)}] BY <3>4
    <3>6. h[s] = IF s = {} THEN st ELSE Applied(g[s \ {Max(s)}], es[Max(s)]) OBVIOUS
    <3> HIDE DEF g, h
    <3> QED BY <3>2, <3>3, <3>5, <3>6
  <2> QED BY <2>1, <2>2
<1>2. g = h BY <1>1
<1>3. FoldsApplied(g, st, es, m + 1) BY <1>2 DEF FoldsApplied
<1> HIDE DEF g
<1> QED BY <1>3

(* AppliedAll, the reading of the manifest, is such a fold.                 *)
LEMMA AppliedAllFolds ==
  ASSUME NEW st, NEW es, NEW n \in Nat, DOMAIN es = 1 .. n
  PROVE  \E f : FoldsApplied(f, st, es, n) /\ AppliedAll(st, es) = f[1 .. n]
<1> DEFINE S == {m \in Nat : \E f : FoldsApplied(f, st, es, m)}
<1>1. 0 \in S
  <2>1. FoldsApplied([s \in SUBSET (1 .. 0) |-> st], st, es, 0)
    <3>1. SUBSET (1 .. 0) = {{}} OBVIOUS
    <3> QED BY <3>1 DEF FoldsApplied
  <2> QED BY <2>1
<1>2. \A m \in Nat : m \in S => m + 1 \in S BY FoldsAppliedNext
<1>3. n \in S
  <2> HIDE DEF S
  <2> QED BY <1>1, <1>2, NatSetInduction
<1> DEFINE iter == CHOOSE f : FoldsApplied(f, st, es, n)
<1>4. FoldsApplied(iter, st, es, n) BY <1>3
<1>5. AppliedAll(st, es) = iter[1 .. n]
  BY DEF AppliedAll, FoldLeft, MapThenFoldSet, FoldsApplied
<1> HIDE DEF iter
<1> QED BY <1>4, <1>5

(* The image of a finite set is finite.                                     *)
LEMMA FiniteImage ==
  ASSUME NEW S, IsFiniteSet(S), NEW f
  PROVE  IsFiniteSet({f[x] : x \in S})
<1> DEFINE T == {f[x] : x \in S}
           g == [x \in S |-> f[x]]
<1>1. g \in Surjection(S, T) BY DEF Surjection
<1> HIDE DEF g, T
<1>2. IsFiniteSet(T) BY <1>1, FS_Surjection
<1> QED BY <1>2 DEF T

(* VersionSet::Builder gives a version whose files are on disk, if those of *)
(* the old version and of the record are.                                   *)
LEMMA SaveToKeeps ==
  ASSUME NEW v, NEW e, NEW on, VersionOK(v, on), EditOK(e, on)
  PROVE  VersionOK(BuilderSaveTo(v, e), on)
<1> SUFFICES ASSUME NEW l \in Level
             PROVE  /\ IsFiniteSet(BuilderSaveTo(v, e)[l])
                    /\ \A f \in BuilderSaveTo(v, e)[l] : f.number \in on
  BY DEF VersionOK
<1> DEFINE A == {f \in v[l] : <<l, f.number>> \notin e.del}
           B == {b \in e.add : b[1] = l}
           C == {a[2] : a \in B}
<1>1. BuilderSaveTo(v, e)[l] = A \cup C BY DEF BuilderSaveTo
<1>2. IsFiniteSet(A)
  <2>1. A \in SUBSET v[l] /\ IsFiniteSet(v[l]) BY DEF VersionOK
  <2> HIDE DEF A
  <2> QED BY <2>1, FS_Subset
<1>3. IsFiniteSet(C)
  <2> DEFINE second == [a \in B |-> a[2]]
  <2>1. B \in SUBSET e.add /\ IsFiniteSet(e.add) BY DEF EditOK
  <2>2. C = {second[a] : a \in B} OBVIOUS
  <2> HIDE DEF B, C, second
  <2>3. IsFiniteSet(B) BY <2>1, FS_Subset
  <2> QED BY <2>2, <2>3, FiniteImage
<1>4. IsFiniteSet(A \cup C)
  <2> HIDE DEF A, C
  <2> QED BY <1>2, <1>3, FS_Union
<1>5. \A f \in A \cup C : f.number \in on BY DEF VersionOK, EditOK
<1> HIDE DEF A, C
<1> QED BY <1>1, <1>4, <1>5

(* The files of the state a record leaves.                                  *)
LEMMA AppliedFiles ==
  ASSUME NEW st, NEW e PROVE Applied(st, e).files = BuilderSaveTo(st.files, e)
BY DEF Applied

(* A fold over no record is where it started.                               *)
LEMMA FoldEmpty ==
  ASSUME NEW f, NEW st, NEW es, NEW n \in Nat, FoldsApplied(f, st, es, n)
  PROVE  f[{}] = st
BY DEF FoldsApplied

(* The last record of a fold is applied to the fold over the others.        *)
LEMMA FoldStep ==
  ASSUME NEW f, NEW st, NEW es, NEW n \in Nat, FoldsApplied(f, st, es, n),
         NEW k \in 1 .. n, NEW s \in SUBSET (1 .. k), k \in s
  PROVE  f[s] = Applied(f[s \ {k}], es[k])
<1>1. k - 1 \in Nat /\ k - 1 + 1 = k OBVIOUS
<1>2. Max(s) = k - 1 + 1 BY <1>1, MaxIsLast
<1>3. s \in SUBSET (1 .. n) /\ s # {} OBVIOUS
<1>4. f[s] = Applied(f[s \ {Max(s)}], es[Max(s)]) BY <1>3 DEF FoldsApplied
<1> QED BY <1>1, <1>2, <1>4

(* A manifest of no record leaves the state as it is.                       *)
LEMMA AppliedAllNone ==
  ASSUME NEW st PROVE AppliedAll(st, <<>>) = st
<1>1. PICK f : FoldsApplied(f, st, <<>>, 0) /\ AppliedAll(st, <<>>) = f[1 .. 0]
  BY AppliedAllFolds
<1>2. 1 .. 0 = {} OBVIOUS
<1> QED BY <1>1, <1>2, FoldEmpty

(* A manifest of one record applies it.                                     *)
LEMMA AppliedAllOne ==
  ASSUME NEW st, NEW e PROVE AppliedAll(st, <<e>>) = Applied(st, e)
<1> DEFINE es == <<e>>
<1>0. DOMAIN es = 1 .. 1 /\ es[1] = e OBVIOUS
<1> HIDE DEF es
<1>1. PICK f : FoldsApplied(f, st, es, 1) /\ AppliedAll(st, es) = f[1 .. 1]
  BY <1>0, AppliedAllFolds
<1>2. (1 .. 1) \ {1} = {} OBVIOUS
<1>3. f[1 .. 1] = Applied(f[(1 .. 1) \ {1}], es[1]) BY <1>1, FoldStep
<1>4. f[{}] = st BY <1>1, FoldEmpty
<1>5. AppliedAll(st, es) = Applied(st, e) BY <1>0, <1>1, <1>2, <1>3, <1>4
<1> QED BY <1>5 DEF es

(* A restart that reads any number of records finds a version whose files   *)
(* are on disk, if those of the first state and of every record are.        *)
LEMMA AppliedAllKeeps ==
  ASSUME NEW st, NEW es, NEW n \in Nat, DOMAIN es = 1 .. n, NEW on,
         VersionOK(st.files, on), \A i \in 1 .. n : EditOK(es[i], on)
  PROVE  VersionOK(AppliedAll(st, es).files, on)
<1>1. PICK f : FoldsApplied(f, st, es, n) /\ AppliedAll(st, es) = f[1 .. n]
  BY AppliedAllFolds
<1> DEFINE S == {m \in Nat : m <= n => \A s \in SUBSET (1 .. m) : VersionOK(f[s].files, on)}
<1>2. 0 \in S
  <2>1. \A s \in SUBSET (1 .. 0) : s = {} OBVIOUS
  <2>2. VersionOK(f[{}].files, on) BY <1>1, FoldEmpty
  <2> QED BY <2>1, <2>2
<1>3. ASSUME NEW m \in Nat, m \in S PROVE m + 1 \in S
  <2> SUFFICES ASSUME m + 1 <= n, NEW s \in SUBSET (1 .. m + 1)
               PROVE  VersionOK(f[s].files, on)
    OBVIOUS
  <2>1. CASE m + 1 \in s
    <3> DEFINE k == m + 1
    <3>1. k \in 1 .. n /\ s \in SUBSET (1 .. k) /\ k \in s BY <2>1
    <3>2. s \ {k} \in SUBSET (1 .. m) /\ m <= n OBVIOUS
    <3>3. VersionOK(f[s \ {k}].files, on) BY <1>3, <3>2
    <3> HIDE DEF k, S
    <3>4. EditOK(es[k], on) BY <3>1
    <3>5. f[s] = Applied(f[s \ {k}], es[k]) BY <1>1, <3>1, FoldStep, SMTT(20)
    <3>6. f[s].files = BuilderSaveTo(f[s \ {k}].files, es[k]) BY <3>5, AppliedFiles
    <3> QED BY <3>3, <3>4, <3>6, SaveToKeeps
  <2>2. CASE m + 1 \notin s
    <3>1. s \in SUBSET (1 .. m) /\ m <= n BY <2>2
    <3> QED BY <3>1, <1>3
  <2> QED BY <2>1, <2>2
<1>4. n \in S
  <2> HIDE DEF S
  <2> QED BY <1>2, <1>3, NatSetInduction
<1>5. 1 .. n \in SUBSET (1 .. n) OBVIOUS
<1> QED BY <1>1, <1>4, <1>5

(***************************************************************************)
(* The rounds of GetOverlappingInputs.                                      *)
(***************************************************************************)
(* The user keys of range r and of files S.                                 *)
Widened(r, S) == [lo |-> Min({r.lo} \cup {f.smallest.key : f \in S}),
                  hi |-> Max({r.hi} \cup {f.largest.key : f \in S})]

(* g gives the files of each of the first m rounds of GetOverlappingInputs. *)
Rounds(g, files, r, m) ==
  g = [n \in 0 .. m |-> IF n = 0 THEN Overlapping(files, r)
                        ELSE Overlapping(files, Widened(r, g[n - 1]))]

(* There are such rounds, as many as one likes.                             *)
LEMMA RoundsExist ==
  ASSUME NEW files, NEW r, NEW m \in Nat
  PROVE  \E g : Rounds(g, files, r, m)
<1> DEFINE S == {k \in Nat : \E g : Rounds(g, files, r, k)}
<1>1. 0 \in S
  <2>1. Rounds([n \in 0 .. 0 |-> Overlapping(files, r)], files, r, 0) BY DEF Rounds
  <2> QED BY <2>1
<1>2. ASSUME NEW k \in Nat, k \in S PROVE k + 1 \in S
  <2>1. PICK g : Rounds(g, files, r, k) BY <1>2
  <2> DEFINE h == [n \in 0 .. k + 1 |-> IF n = k + 1 THEN Overlapping(files, Widened(r, g[k]))
                                        ELSE g[n]]
             e == [n \in 0 .. k + 1 |-> IF n = 0 THEN Overlapping(files, r)
                                        ELSE Overlapping(files, Widened(r, h[n - 1]))]
  <2>2. ASSUME NEW n \in 0 .. k + 1 PROVE h[n] = e[n]
    <3>1. CASE n = k + 1
      <4>1. n # 0 /\ n - 1 = k /\ k \in 0 .. k + 1 /\ k # k + 1 BY <3>1
      <4>2. h[k] = g[k] BY <4>1
      <4>3. e[n] = Overlapping(files, Widened(r, h[k])) BY <4>1
      <4>4. h[n] = Overlapping(files, Widened(r, g[k])) BY <3>1
      <4> HIDE DEF h, e
      <4> QED BY <4>2, <4>3, <4>4
    <3>2. CASE n # k + 1
      <4>1. n \in 0 .. k BY <3>2
      <4>2. h[n] = g[n] BY <3>2
      <4>3. g[n] = IF n = 0 THEN Overlapping(files, r)
                   ELSE Overlapping(files, Widened(r, g[n - 1]))
        BY <2>1, <4>1 DEF Rounds
      <4>4. e[n] = IF n = 0 THEN Overlapping(files, r)
                   ELSE Overlapping(files, Widened(r, h[n - 1]))
        OBVIOUS
      <4>5. n # 0 => h[n - 1] = g[n - 1]
        <5> SUFFICES ASSUME n # 0 PROVE h[n - 1] = g[n - 1] OBVIOUS
        <5>1. n - 1 \in 0 .. k + 1 /\ n - 1 # k + 1 BY <4>1
        <5> QED BY <5>1
      <4> HIDE DEF h, e
      <4> QED BY <4>2, <4>3, <4>4, <4>5
    <3> QED BY <3>1, <3>2
  <2>3. h = e BY <2>2
  <2>4. Rounds(h, files, r, k + 1) BY <2>3 DEF Rounds
  <2> HIDE DEF h
  <2> QED BY <2>4
<1> HIDE DEF S
<1>3. m \in S BY <1>1, <1>2, NatSetInduction
<1> QED BY <1>3 DEF S

(* A round takes files of the level.                                        *)
LEMMA RoundIsSubset ==
  ASSUME NEW g, NEW files, NEW r, NEW m \in Nat, Rounds(g, files, r, m)
  PROVE  g[m] \subseteq files
<1>1. g[m] = IF m = 0 THEN Overlapping(files, r)
             ELSE Overlapping(files, Widened(r, g[m - 1]))
  BY DEF Rounds
<1>2. \A q : Overlapping(files, q) \subseteq files BY DEF Overlapping
<1> QED BY <1>1, <1>2

(* GetOverlappingInputs takes files of the level it is asked about.         *)
LEMMA InputsAreOfLevel ==
  ASSUME NEW v, NEW l, NEW r, IsFiniteSet(v[l])
  PROVE  GetOverlappingInputs(v, l, r) \subseteq v[l]
<1> DEFINE round == CHOOSE g : Rounds(g, v[l], r, Cardinality(v[l]))
<1>1. Cardinality(v[l]) \in Nat BY FS_CardinalityType
<1>2. Rounds(round, v[l], r, Cardinality(v[l])) BY <1>1, RoundsExist
<1>3. GetOverlappingInputs(v, l, r) = IF l = 0 THEN round[Cardinality(v[l])]
                                      ELSE Overlapping(v[l], r)
  BY DEF GetOverlappingInputs, Rounds, Widened
<1> HIDE DEF round
<1>4. round[Cardinality(v[l])] \subseteq v[l] BY <1>1, <1>2, RoundIsSubset
<1>5. Overlapping(v[l], r) \subseteq v[l] BY DEF Overlapping
<1> QED BY <1>3, <1>4, <1>5

(* SetupOtherInputs takes the files of the level itself from that level,    *)
(* also when it makes the compaction larger.                                *)
LEMMA SetupTakesFiles ==
  ASSUME NEW v, NEW l, NEW in0, NEW grow, IsFiniteSet(v[l]), in0 \subseteq v[l]
  PROVE  /\ SetupOtherInputs(v, l, in0, grow).level = l
         /\ SetupOtherInputs(v, l, in0, grow).in0 \subseteq v[l]
<1> DEFINE in1 == GetOverlappingInputs(v, l + 1, GetRange(in0))
           ex0 == GetOverlappingInputs(v, l, GetRange(in0 \cup in1))
           ex1 == GetOverlappingInputs(v, l + 1, GetRange(ex0))
           larger == /\ grow /\ in1 # {}
                     /\ Cardinality(ex0) > Cardinality(in0)
                     /\ Cardinality(ex1) = Cardinality(in1)
<1>1. SetupOtherInputs(v, l, in0, grow) = IF larger
                                          THEN [level |-> l, in0 |-> ex0, in1 |-> ex1]
                                          ELSE [level |-> l, in0 |-> in0, in1 |-> in1]
  BY DEF SetupOtherInputs
<1>2. ex0 \subseteq v[l] BY InputsAreOfLevel
<1> HIDE DEF in1, ex0, ex1, larger
<1> QED BY <1>1, <1>2

(* The files PickCompaction starts from at level l.                         *)
PickedFrom(v, l, f) ==
  IF l = 0 THEN GetOverlappingInputs(v, 0, GetRange({f})) ELSE {f}

(* The compactions it may pick there.                                       *)
PicksOf(v, l) ==
  {SetupOtherInputs(v, l, PickedFrom(v, l, f), grow) : f \in v[l], grow \in BOOLEAN}

(* PickCompaction picks one level's.                                        *)
LEMMA PicksByLevel ==
  ASSUME NEW v PROVE PickCompaction(v) = UNION {PicksOf(v, l) : l \in 0 .. NumLevels - 2}
BY DEF PickCompaction, PicksOf, PickedFrom

(* A compaction picked from a version takes files of that version.          *)
LEMMA PickTakesFiles ==
  ASSUME NEW v, NEW on, VersionOK(v, on), NEW c \in PickCompaction(v)
  PROVE  c.level \in Level /\ c.in0 \subseteq v[c.level]
<1>1. PICK l \in 0 .. NumLevels - 2 : c \in PicksOf(v, l) BY PicksByLevel
<1>2. PICK f \in v[l], grow \in BOOLEAN : c = SetupOtherInputs(v, l, PickedFrom(v, l, f), grow)
  BY <1>1 DEF PicksOf
<1>3. l \in Level BY LevelAssumption DEF Level
<1>4. IsFiniteSet(v[l]) BY <1>3 DEF VersionOK
<1>5. PickedFrom(v, l, f) \subseteq v[l] BY <1>4, InputsAreOfLevel DEF PickedFrom
<1> QED BY <1>2, <1>3, <1>4, <1>5, SetupTakesFiles

(***************************************************************************)
(* Recovery: the fold of RecoverLogFile.                                    *)
(***************************************************************************)

(* r has the fields of the state Recover keeps.                             *)
IsRecovery(r) == r = [next |-> r.next, tables |-> r.tables, add |-> r.add, seq |-> r.seq]

(* No table is lost on the way, and the tables added are there.             *)
RecoveryOK(r) ==
  /\ IsRecovery(r)
  /\ DOMAIN tables \subseteq DOMAIN r.tables
  /\ EditOK(r, DOMAIN r.tables)

(* The replay of one log keeps this.                                        *)
LEMMA RecoverLogFileKeeps ==
  ASSUME NEW r, NEW n, RecoveryOK(r)
  PROVE  RecoveryOK(RecoverLogFile(r, n))
<1> DEFINE S == EntriesOf(logs[n].recs)
           q == RecoverLogFile(r, n)
           a == <<0, FileMetaData(r.next, S)>>
<1> SUFFICES RecoveryOK(q) OBVIOUS
<1>1. CASE S = {}
  <2>1. q = [r EXCEPT !.next = MarkFileNumberUsed(@, n)] BY <1>1 DEF RecoverLogFile
  <2>2. r = [next |-> r.next, tables |-> r.tables, add |-> r.add, seq |-> r.seq]
    BY DEF RecoveryOK, IsRecovery
  <2>3. q = [next |-> MarkFileNumberUsed(r.next, n), tables |-> r.tables, add |-> r.add,
             seq |-> r.seq]
    BY <2>1, <2>2
  <2> HIDE DEF q
  <2>4. q.add = r.add /\ q.tables = r.tables BY <2>3
  <2>5. IsRecovery(q) BY <2>3 DEF IsRecovery
  <2> QED BY <2>4, <2>5 DEF RecoveryOK, EditOK
<1>2. CASE S # {}
  <2>1. q = [next   |-> MarkFileNumberUsed(r.next + 1, n),
             tables |-> [m \in DOMAIN r.tables \cup {r.next} |->
                          IF m = r.next THEN S ELSE r.tables[m]],
             add    |-> r.add \cup {a},
             seq    |-> Max({r.seq} \cup {e.seq : e \in S})]
    BY <1>2 DEF RecoverLogFile
  <2>2. a[2].number = r.next BY DEF FileMetaData
  <2> HIDE DEF a, q, S
  <2>3. q.add = r.add \cup {a} /\ DOMAIN q.tables = DOMAIN r.tables \cup {r.next} BY <2>1
  <2>4. IsRecovery(q) BY <2>1 DEF IsRecovery
  <2>5. IsFiniteSet(q.add) BY <2>3, FS_AddElement DEF RecoveryOK, EditOK
  <2>6. \A b \in q.add : b[2].number \in DOMAIN q.tables
    BY <2>2, <2>3 DEF RecoveryOK, EditOK
  <2>7. DOMAIN tables \subseteq DOMAIN q.tables BY <2>3 DEF RecoveryOK
  <2> QED BY <2>4, <2>5, <2>6, <2>7 DEF RecoveryOK, EditOK
<1> QED BY <1>1, <1>2

(* f folds RecoverLogFile over the first m logs of es, for every set of     *)
(* them.                                                                    *)
FoldsRecovery(f, st, es, m) ==
  f = [s \in SUBSET (1 .. m) |->
         IF s = {} THEN st ELSE RecoverLogFile(f[s \ {Max(s)}], es[Max(s)])]

(* A replay of m logs gives one of m + 1.                                   *)
LEMMA FoldsRecoveryNext ==
  ASSUME NEW st, NEW es, NEW m \in Nat, NEW f, FoldsRecovery(f, st, es, m)
  PROVE  \E g : FoldsRecovery(g, st, es, m + 1)
<1> DEFINE g == [s \in SUBSET (1 .. m + 1) |->
                   IF m + 1 \in s THEN RecoverLogFile(f[s \ {m + 1}], es[m + 1]) ELSE f[s]]
           h == [s \in SUBSET (1 .. m + 1) |->
                   IF s = {} THEN st ELSE RecoverLogFile(g[s \ {Max(s)}], es[Max(s)])]
<1>1. ASSUME NEW s \in SUBSET (1 .. m + 1) PROVE g[s] = h[s]
  <2>1. CASE m + 1 \in s
    <3>1. Max(s) = m + 1 BY <2>1, MaxIsLast
    <3>2. s \ {m + 1} \in SUBSET (1 .. m + 1) /\ m + 1 \notin s \ {m + 1} OBVIOUS
    <3>3. g[s \ {m + 1}] = f[s \ {m + 1}] BY <3>2
    <3>4. h[s] = RecoverLogFile(g[s \ {m + 1}], es[m + 1]) BY <3>1, <2>1
    <3>5. g[s] = RecoverLogFile(f[s \ {m + 1}], es[m + 1]) BY <2>1
    <3> HIDE DEF g, h
    <3> QED BY <3>3, <3>4, <3>5
  <2>2. CASE m + 1 \notin s
    <3>1. s \in SUBSET (1 .. m) BY <2>2
    <3>2. g[s] = f[s] BY <2>2
    <3>3. f[s] = IF s = {} THEN st ELSE RecoverLogFile(f[s \ {Max(s)}], es[Max(s)])
      BY <3>1 DEF FoldsRecovery
    <3>4. s \ {Max(s)} \in SUBSET (1 .. m + 1) /\ m + 1 \notin s \ {Max(s)} BY <2>2
    <3>5. g[s \ {Max(s)}] = f[s \ {Max(s)}] BY <3>4
    <3>6. h[s] = IF s = {} THEN st ELSE RecoverLogFile(g[s \ {Max(s)}], es[Max(s)]) OBVIOUS
    <3> HIDE DEF g, h
    <3> QED BY <3>2, <3>3, <3>5, <3>6
  <2> QED BY <2>1, <2>2
<1>2. g = h BY <1>1
<1>3. FoldsRecovery(g, st, es, m + 1) BY <1>2 DEF FoldsRecovery
<1> HIDE DEF g
<1> QED BY <1>3

(* What Recover starts from.                                                *)
RecoveryBase == [next |-> manifest.base.next + 1, tables |-> tables, add |-> {},
                 seq |-> manifest.base.seq]

(* What Recover leaves is such a fold over the logs it replays.             *)
LEMMA RecoveredFolds ==
  ASSUME NEW n \in Nat, DOMAIN LogsToRecover = 1 .. n
  PROVE  \E f : FoldsRecovery(f, RecoveryBase, LogsToRecover, n) /\ Recovered = f[1 .. n]
<1> DEFINE S == {m \in Nat : \E f : FoldsRecovery(f, RecoveryBase, LogsToRecover, m)}
<1>1. 0 \in S
  <2>1. FoldsRecovery([s \in SUBSET (1 .. 0) |-> RecoveryBase], RecoveryBase, LogsToRecover, 0)
    <3>1. SUBSET (1 .. 0) = {{}} OBVIOUS
    <3> QED BY <3>1 DEF FoldsRecovery
  <2> QED BY <2>1
<1>2. \A m \in Nat : m \in S => m + 1 \in S BY FoldsRecoveryNext
<1>3. n \in S
  <2> HIDE DEF S
  <2> QED BY <1>1, <1>2, NatSetInduction
<1> DEFINE iter == CHOOSE f : FoldsRecovery(f, RecoveryBase, LogsToRecover, n)
<1>4. FoldsRecovery(iter, RecoveryBase, LogsToRecover, n) BY <1>3
<1>5. Recovered = iter[1 .. n]
  BY DEF Recovered, FoldLeft, MapThenFoldSet, FoldsRecovery, RecoveryBase
<1> HIDE DEF iter
<1> QED BY <1>4, <1>5

(* A replay of no log is where it started.                                  *)
LEMMA RecoveryFoldEmpty ==
  ASSUME NEW f, NEW st, NEW es, NEW n \in Nat, FoldsRecovery(f, st, es, n)
  PROVE  f[{}] = st
BY DEF FoldsRecovery

(* The last log is replayed on top of the others.                           *)
LEMMA RecoveryFoldStep ==
  ASSUME NEW f, NEW st, NEW es, NEW n \in Nat, FoldsRecovery(f, st, es, n),
         NEW k \in 1 .. n, NEW s \in SUBSET (1 .. k), k \in s
  PROVE  f[s] = RecoverLogFile(f[s \ {k}], es[k])
<1>1. k - 1 \in Nat /\ k - 1 + 1 = k OBVIOUS
<1>2. Max(s) = k - 1 + 1 BY <1>1, MaxIsLast
<1>3. s \in SUBSET (1 .. n) /\ s # {} OBVIOUS
<1>4. f[s] = RecoverLogFile(f[s \ {Max(s)}], es[Max(s)]) BY <1>3 DEF FoldsRecovery
<1> QED BY <1>1, <1>2, <1>4

(* A replay of any number of logs loses no table.                           *)
LEMMA RecoveryFoldKeeps ==
  ASSUME NEW f, NEW st, NEW es, NEW n \in Nat, FoldsRecovery(f, st, es, n), RecoveryOK(st)
  PROVE  RecoveryOK(f[1 .. n])
<1> DEFINE S == {m \in Nat : m <= n => \A s \in SUBSET (1 .. m) : RecoveryOK(f[s])}
<1>1. 0 \in S
  <2>1. \A s \in SUBSET (1 .. 0) : s = {} OBVIOUS
  <2>2. RecoveryOK(f[{}]) BY RecoveryFoldEmpty
  <2> QED BY <2>1, <2>2
<1>2. ASSUME NEW m \in Nat, m \in S PROVE m + 1 \in S
  <2> SUFFICES ASSUME m + 1 <= n, NEW s \in SUBSET (1 .. m + 1) PROVE RecoveryOK(f[s])
    OBVIOUS
  <2>1. CASE m + 1 \in s
    <3> DEFINE k == m + 1
    <3>1. k \in 1 .. n /\ s \in SUBSET (1 .. k) /\ k \in s BY <2>1
    <3>2. s \ {k} \in SUBSET (1 .. m) /\ m <= n OBVIOUS
    <3>3. RecoveryOK(f[s \ {k}]) BY <1>2, <3>2
    <3> HIDE DEF k, S
    <3>4. f[s] = RecoverLogFile(f[s \ {k}], es[k]) BY <3>1, RecoveryFoldStep
    <3> QED BY <3>3, <3>4, RecoverLogFileKeeps
  <2>2. CASE m + 1 \notin s
    <3>1. s \in SUBSET (1 .. m) /\ m <= n BY <2>2
    <3> QED BY <3>1, <1>2
  <2> QED BY <2>1, <2>2
<1>3. n \in S
  <2> HIDE DEF S
  <2> QED BY <1>1, <1>2, NatSetInduction
<1>4. 1 .. n \in SUBSET (1 .. n) /\ n <= n OBVIOUS
<1> QED BY <1>3, <1>4

(* Recover loses no table and names only tables that are there.             *)
LEMMA RecoveredOK ==
  ASSUME IsFiniteSet(DOMAIN logs)
  PROVE  RecoveryOK(Recovered)
<1> DEFINE es == LogsToRecover
           st == RecoveryBase
           n == Cardinality({m \in DOMAIN logs : m >= manifest.base.log})
<1>1. n \in Nat /\ DOMAIN es = 1 .. n
  <2>1. IsFiniteSet({m \in DOMAIN logs : m >= manifest.base.log}) BY FS_Subset
  <2>2. n \in Nat BY <2>1, FS_CardinalityType
  <2> QED BY <2>2 DEF LogsToRecover
<1>2. RecoveryOK(st) BY FS_EmptySet DEF RecoveryOK, RecoveryBase, IsRecovery, EditOK
<1> HIDE DEF n
<1>3. PICK f : FoldsRecovery(f, st, es, n) /\ Recovered = f[1 .. n]
  BY <1>1, RecoveredFolds
<1> HIDE DEF es, st
<1> QED BY <1>1, <1>2, <1>3, RecoveryFoldKeeps

(***************************************************************************)
(* Sequences.                                                               *)
(***************************************************************************)

(* s is a sequence.                                                         *)
IsSeq(s) == s \in Seq(Range(s))

(* A sequence with an element more.                                         *)
LEMMA AppendIsSeq ==
  ASSUME NEW s, IsSeq(s), NEW e
  PROVE  /\ IsSeq(Append(s, e)) /\ Len(s) \in Nat /\ DOMAIN s = 1 .. Len(s)
         /\ Len(Append(s, e)) = Len(s) + 1
         /\ \A i \in 1 .. Len(s) + 1 : Append(s, e)[i] = IF i = Len(s) + 1 THEN e ELSE s[i]
<1> DEFINE S == Range(s) \cup {e}
           t == Append(s, e)
<1>1. s \in Seq(S)
  <2>1. s \in Seq(Range(s)) BY DEF IsSeq
  <2>2. Range(s) \subseteq S OBVIOUS
  <2> HIDE DEF S
  <2> QED BY <2>1, <2>2, SeqMonotonic
<1>2. e \in S OBVIOUS
<1> HIDE DEF S
<1>3. /\ t \in Seq(S) /\ Len(t) = Len(s) + 1
      /\ \A i \in 1 .. Len(s) : t[i] = s[i]
      /\ t[Len(s) + 1] = e
  BY <1>1, <1>2, AppendProperties
<1>4. Len(s) \in Nat /\ DOMAIN s = 1 .. Len(s) BY <1>1
<1> HIDE DEF t
<1>5. IsSeq(t) BY <1>3 DEF IsSeq, Range
<1>6. \A i \in 1 .. Len(s) + 1 : t[i] = IF i = Len(s) + 1 THEN e ELSE s[i]
  BY <1>3, <1>4
<1> QED BY <1>3, <1>4, <1>5, <1>6 DEF t

(* The empty sequence.                                                      *)
LEMMA EmptyIsSeq == IsSeq(<<>>) /\ Len(<<>>) = 0
BY DEF IsSeq, Range

(***************************************************************************)
(* The order of entries, and the bounds of a table.                         *)
(***************************************************************************)

(* R orders S: of two elements one is before the other.                      *)
Orders(R, S) ==
  /\ \A x, y \in S : <<x, y>> \in R \/ <<y, x>> \in R
  /\ \A x, y, z \in S : <<x, y>> \in R /\ <<y, z>> \in R => <<x, z>> \in R

(* A finite set with an order has a first element.                           *)
LEMMA FiniteHasFirst ==
  ASSUME NEW S, IsFiniteSet(S), S # {}, NEW R, Orders(R, S)
  PROVE  \E m \in S : \A x \in S : <<m, x>> \in R
<1> DEFINE First(T) == \E m \in T : \A x \in T : <<m, x>> \in R
           N == {n \in Nat : \A T \in SUBSET S : Cardinality(T) = n + 1 => First(T)}
<1>1. 0 \in N
  <2> SUFFICES ASSUME NEW T \in SUBSET S, Cardinality(T) = 0 + 1 PROVE First(T) OBVIOUS
  <2>1. IsFiniteSet(T) /\ Cardinality(T) = 1 BY FS_Subset
  <2>2. PICK m : T = {m} BY <2>1, FS_Singleton
  <2>3. <<m, m>> \in R BY <2>2 DEF Orders
  <2> QED BY <2>2, <2>3
<1>2. ASSUME NEW n \in Nat, n \in N PROVE n + 1 \in N
  <2> SUFFICES ASSUME NEW T \in SUBSET S, Cardinality(T) = n + 1 + 1 PROVE First(T) OBVIOUS
  <2>1. IsFiniteSet(T) BY FS_Subset
  <2>2. T # {}
    <3> SUFFICES ASSUME T = {} PROVE FALSE OBVIOUS
    <3>1. Cardinality(T) = 0 BY FS_EmptySet
    <3> QED BY <3>1
  <2>3. PICK y \in T : TRUE BY <2>2
  <2> DEFINE U == T \ {y}
  <2>4. IsFiniteSet(U) /\ Cardinality(U) = Cardinality(T) - 1 BY <2>1, <2>3, FS_RemoveElement
  <2>5. Cardinality(U) = n + 1 /\ U \in SUBSET S BY <2>4
  <2>6. First(U)
    <3> HIDE DEF U, First
    <3> QED BY <1>2, <2>5
  <2>7. PICK m \in U : \A x \in U : <<m, x>> \in R BY <2>6
  <2>8. m \in S /\ y \in S /\ <<y, y>> \in R BY DEF Orders
  <2>9. CASE <<m, y>> \in R BY <2>7, <2>9
  <2>10. CASE <<y, m>> \in R
    <3>1. ASSUME NEW x \in T PROVE <<y, x>> \in R
      <4>1. CASE x = y BY <2>8, <4>1
      <4>2. CASE x # y BY <2>7, <2>8, <2>10, <4>2 DEF Orders
      <4> QED BY <4>1, <4>2
    <3> QED BY <3>1
  <2> QED BY <2>8, <2>9, <2>10 DEF Orders
<1>3. Cardinality(S) \in Nat /\ Cardinality(S) # 0 BY FS_CardinalityType, FS_EmptySet
<1>4. Cardinality(S) - 1 \in Nat /\ Cardinality(S) = (Cardinality(S) - 1) + 1 BY <1>3
<1>5. Cardinality(S) - 1 \in N
  <2> HIDE DEF N
  <2> QED BY <1>1, <1>2, <1>4, NatSetInduction
<1>6. First(S) BY <1>4, <1>5
<1> QED BY <1>6

(* The smallest and the greatest of finitely many integers.                  *)
LEMMA MinMaxOf ==
  ASSUME NEW S \in SUBSET Int, IsFiniteSet(S), S # {}
  PROVE  /\ Min(S) \in S /\ \A x \in S : Min(S) <= x
         /\ Max(S) \in S /\ \A x \in S : Max(S) >= x
<1>1. \E m \in S : \A x \in S : m <= x
  <2> DEFINE R == {p \in S \X S : p[1] <= p[2]}
  <2>1. \A x, y \in S : <<x, y>> \in R <=> x <= y OBVIOUS
  <2> HIDE DEF R
  <2>2. Orders(R, S) BY <2>1 DEF Orders
  <2>3. PICK m \in S : \A x \in S : <<m, x>> \in R BY <2>2, FiniteHasFirst
  <2> QED BY <2>1, <2>3
<1>2. \E m \in S : \A x \in S : m >= x
  <2> DEFINE R == {p \in S \X S : p[1] >= p[2]}
  <2>1. \A x, y \in S : <<x, y>> \in R <=> x >= y OBVIOUS
  <2> HIDE DEF R
  <2>2. Orders(R, S) BY <2>1 DEF Orders
  <2>3. PICK m \in S : \A x \in S : <<m, x>> \in R BY <2>2, FiniteHasFirst
  <2> QED BY <2>1, <2>3
<1>3. Min(S) \in S /\ \A x \in S : Min(S) <= x BY <1>1 DEF Min
<1>4. Max(S) \in S /\ \A x \in S : Max(S) >= x BY <1>2 DEF Max
<1> QED BY <1>3, <1>4

(* The elements of a sequence.                                               *)
LEMMA ElementsOf ==
  ASSUME NEW T, NEW s \in Seq(T)
  PROVE  Len(s) \in Nat /\ DOMAIN s = 1 .. Len(s) /\ \A i \in DOMAIN s : s[i] \in T
BY LenProperties, ElementOfSeq

(* What a job is.                                                            *)
LEMMA JobsTyped == \A j \in Jobs : j \in [ops: Seq([key: Int, del: BOOLEAN]), sync: BOOLEAN]
BY LevelDBAssumption, Zenon

(* The keys are integers,                                                    *)
LEMMA KeysAreInts == \A k \in Keys : k \in Int
<1> SUFFICES ASSUME NEW k \in Keys PROVE k \in Int OBVIOUS
<1>1. PICK o \in UNION {Range(j.ops) : j \in Jobs} : k = o.key BY DEF Keys
<1>2. PICK j \in Jobs : o \in Range(j.ops) BY <1>1
<1>3. PICK i \in DOMAIN j.ops : o = j.ops[i] BY <1>2 DEF Range
<1>4. j \in [ops: Seq([key: Int, del: BOOLEAN]), sync: BOOLEAN] BY JobsTyped
<1>5. j.ops \in Seq([key: Int, del: BOOLEAN]) BY <1>4
<1>6. o \in [key: Int, del: BOOLEAN] BY <1>3, <1>5, ElementsOf
<1> QED BY <1>1, <1>6

(* ... and so are the sequence numbers.                                      *)
LEMMA EntryFields ==
  ASSUME NEW a \in Entry
  PROVE  a.key \in Keys /\ a.key \in Int /\ a.seq \in 1 .. MaxSeq /\ a.seq \in Int /\ a.del \in BOOLEAN
<1>1. a.key \in Keys /\ a.seq \in 1 .. MaxSeq /\ a.del \in BOOLEAN BY DEF Entry, EntryOf
<1>2. MaxSeq \in Nat BY LevelDBAssumption
<1> QED BY <1>1, <1>2, KeysAreInts

(* The order of internal keys.                                               *)
LEMMA BeforeOrder ==
  /\ \A a \in Entry : ~Before(a, a)
  /\ \A a, b, c \in Entry : Before(a, b) /\ Before(b, c) => Before(a, c)
  /\ \A a, b, c \in Entry : Before(a, b) /\ ~Before(c, b) => Before(a, c)
  /\ \A a, b, c \in Entry : ~Before(b, a) /\ Before(b, c) => Before(a, c)
  /\ \A a, b, c \in Entry : ~Before(b, a) /\ ~Before(c, b) => ~Before(c, a)
  /\ \A a, b \in Entry : ~Before(a, b) \/ ~Before(b, a)
  /\ \A a, b \in Entry : a.key < b.key => Before(a, b)
  /\ \A a, b \in Entry : ~Before(b, a) => a.key <= b.key
<1>1. \A a \in Entry : a.key \in Int /\ a.seq \in Int BY EntryFields
<1> QED BY <1>1 DEF Before

(* The bounds the builder of a table records.                                *)
LEMMA BuiltBounds ==
  ASSUME NEW S, IsFiniteSet(S), S \subseteq Entry, S # {}, NEW n
  PROVE  LET f == FileMetaData(n, S)
         IN  /\ f.number = n /\ f.smallest \in S /\ f.largest \in S
             /\ \A a \in S : ~Before(a, f.smallest) /\ ~Before(f.largest, a)
<1>0. \A a, b \in S : ~Before(a, b) \/ ~Before(b, a) BY BeforeOrder
<1>1. \E m \in S : \A x \in S : ~Before(x, m)
  <2> DEFINE R == {p \in S \X S : ~Before(p[2], p[1])}
  <2>1. \A x, y \in S : <<x, y>> \in R <=> ~Before(y, x) OBVIOUS
  <2> HIDE DEF R
  <2>2. Orders(R, S) BY <1>0, <2>1, BeforeOrder DEF Orders
  <2>3. PICK m \in S : \A x \in S : <<m, x>> \in R BY <2>2, FiniteHasFirst
  <2> QED BY <2>1, <2>3
<1>2. \E m \in S : \A x \in S : ~Before(m, x)
  <2> DEFINE R == {p \in S \X S : ~Before(p[1], p[2])}
  <2>1. \A x, y \in S : <<x, y>> \in R <=> ~Before(x, y) OBVIOUS
  <2> HIDE DEF R
  <2>2. Orders(R, S) BY <1>0, <2>1, BeforeOrder DEF Orders
  <2>3. PICK m \in S : \A x \in S : <<m, x>> \in R BY <2>2, FiniteHasFirst
  <2> QED BY <2>1, <2>3
<1> DEFINE f == FileMetaData(n, S)
<1>3. f.number = n BY DEF FileMetaData
<1>4. f.smallest \in S /\ \A a \in S : ~Before(a, f.smallest) BY <1>1 DEF FileMetaData
<1>5. f.largest \in S /\ \A a \in S : ~Before(f.largest, a) BY <1>2 DEF FileMetaData
<1> QED BY <1>3, <1>4, <1>5

(***************************************************************************)
(* Ranges of keys, and the inputs of a compaction.                          *)
(***************************************************************************)

(* The user keys of the files' bounds are integers in their order.           *)
KeysOK(F) ==
  \A f \in F : f.smallest.key \in Int /\ f.largest.key \in Int /\ f.smallest.key <= f.largest.key

(* Every key of range r is in the range of a file of F.                      *)
Covers(F, r) ==
  \A x \in Int : r.lo <= x /\ x <= r.hi => \E f \in F : f.smallest.key <= x /\ x <= f.largest.key

(* GetRange gives the hull of the files.                                     *)
LEMMA RangeOf ==
  ASSUME NEW F, IsFiniteSet(F), F # {}, KeysOK(F)
  PROVE  LET r == GetRange(F)
         IN  /\ r.lo \in Int /\ r.hi \in Int
             /\ \A f \in F : r.lo <= f.smallest.key /\ f.largest.key <= r.hi
             /\ \E f \in F : r.lo = f.smallest.key
             /\ \E f \in F : r.hi = f.largest.key
<1> DEFINE A == {f.smallest.key : f \in F}
           B == {f.largest.key : f \in F}
           a == [f \in F |-> f.smallest.key]
           b == [f \in F |-> f.largest.key]
<1>1. A = {a[f] : f \in F} /\ B = {b[f] : f \in F} OBVIOUS
<1>2. A \in SUBSET Int /\ B \in SUBSET Int /\ A # {} /\ B # {} BY DEF KeysOK
<1>3. GetRange(F).lo = Min(A) /\ GetRange(F).hi = Max(B) BY DEF GetRange
<1>4. IsFiniteSet(A) /\ IsFiniteSet(B)
  <2> HIDE DEF A, B, a, b
  <2> QED BY <1>1, FiniteImage
<1>5. /\ Min(A) \in A /\ \A x \in A : Min(A) <= x
      /\ Max(B) \in B /\ \A x \in B : Max(B) >= x
  <2> HIDE DEF A, B
  <2> QED BY <1>2, <1>4, MinMaxOf
<1> DEFINE lo == Min(A)
           hi == Max(B)
<1>6. lo \in A /\ (\A x \in A : lo <= x) /\ hi \in B /\ \A x \in B : hi >= x BY <1>5
<1>7. GetRange(F).lo = lo /\ GetRange(F).hi = hi BY <1>3
<1> HIDE DEF lo, hi
<1>8. /\ lo \in Int /\ hi \in Int
      /\ \A f \in F : lo <= f.smallest.key /\ f.largest.key <= hi
      /\ \E f \in F : lo = f.smallest.key
      /\ \E f \in F : hi = f.largest.key
  <2>1. \A f \in F : f.smallest.key \in A /\ f.largest.key \in B OBVIOUS
  <2>2. lo \in Int /\ hi \in Int BY <1>2, <1>6
  <2>3. \A f \in F : lo <= f.smallest.key /\ hi >= f.largest.key BY <1>6, <2>1
  <2>4. \A f \in F : f.largest.key \in Int BY DEF KeysOK
  <2>5. \A f \in F : f.largest.key <= hi BY <2>2, <2>3, <2>4
  <2>6. \E f \in F : lo = f.smallest.key BY <1>6
  <2>7. \E f \in F : hi = f.largest.key BY <1>6
  <2> QED BY <2>2, <2>3, <2>5, <2>6, <2>7
<1> QED BY <1>7, <1>8

(* Files that overlap a range that is covered widen it to one that is.       *)
LEMMA HullJoin ==
  ASSUME NEW F, NEW G, IsFiniteSet(F), IsFiniteSet(G), F # {}, KeysOK(F), KeysOK(G),
         Covers(F, GetRange(F)),
         \A g \in G : GetRange(F).lo <= g.largest.key /\ g.smallest.key <= GetRange(F).hi
  PROVE  Covers(F \cup G, GetRange(F \cup G))
<1> DEFINE r == GetRange(F)
           s == GetRange(F \cup G)
<1>1. /\ r.lo \in Int /\ r.hi \in Int
      /\ \A f \in F : r.lo <= f.smallest.key /\ f.largest.key <= r.hi
  BY RangeOf
<1>2. /\ s.lo \in Int /\ s.hi \in Int
      /\ \E f \in F \cup G : s.lo = f.smallest.key
      /\ \E f \in F \cup G : s.hi = f.largest.key
  <2>1. IsFiniteSet(F \cup G) /\ F \cup G # {} /\ KeysOK(F \cup G) BY FS_Union DEF KeysOK
  <2> QED BY <2>1, RangeOf
<1>3. \A g \in G : r.lo <= g.largest.key /\ g.smallest.key <= r.hi OBVIOUS
<1>4. Covers(F, r) OBVIOUS
<1> HIDE DEF r, s
<1> SUFFICES ASSUME NEW x \in Int, s.lo <= x, x <= s.hi
             PROVE  \E f \in F \cup G : f.smallest.key <= x /\ x <= f.largest.key
  BY DEF Covers, s
<1>5. CASE r.lo <= x /\ x <= r.hi BY <1>4, <1>5 DEF Covers
<1>6. CASE x < r.lo
  <2>1. PICK f \in F \cup G : s.lo = f.smallest.key BY <1>2
  <2>2. f \in G BY <1>1, <1>2, <1>6, <2>1
  <2>3. f.largest.key \in Int BY <2>2 DEF KeysOK
  <2> QED BY <1>1, <1>3, <1>6, <2>1, <2>2, <2>3
<1>7. CASE r.hi < x
  <2>1. PICK f \in F \cup G : s.hi = f.largest.key BY <1>2
  <2>2. f \in G BY <1>1, <1>2, <1>7, <2>1
  <2>3. f.smallest.key \in Int BY <2>2 DEF KeysOK
  <2> QED BY <1>1, <1>3, <1>7, <2>1, <2>2, <2>3
<1> QED BY <1>1, <1>5, <1>6, <1>7

(* A range that is widened by files is their hull.                           *)
LEMMA WidenedIsHull ==
  ASSUME NEW J, NEW S, IsFiniteSet(J), IsFiniteSet(S), J # {}, KeysOK(J), KeysOK(S)
  PROVE  Widened(GetRange(J), S) = GetRange(J \cup S)
<1> DEFINE r == GetRange(J)
           s == GetRange(J \cup S)
           A == {f.smallest.key : f \in S}
           B == {f.largest.key : f \in S}
           a == [f \in S |-> f.smallest.key]
           b == [f \in S |-> f.largest.key]
<1>1. /\ r.lo \in Int /\ r.hi \in Int
      /\ \A f \in J : r.lo <= f.smallest.key /\ f.largest.key <= r.hi
      /\ \E f \in J : r.lo = f.smallest.key
      /\ \E f \in J : r.hi = f.largest.key
  BY RangeOf
<1>2. /\ s.lo \in Int /\ s.hi \in Int
      /\ \A f \in J \cup S : s.lo <= f.smallest.key /\ f.largest.key <= s.hi
      /\ \E f \in J \cup S : s.lo = f.smallest.key
      /\ \E f \in J \cup S : s.hi = f.largest.key
  <2>1. IsFiniteSet(J \cup S) /\ J \cup S # {} /\ KeysOK(J \cup S) BY FS_Union DEF KeysOK
  <2> QED BY <2>1, RangeOf
<1>3. IsFiniteSet(A) /\ IsFiniteSet(B)
  <2>1. A = {a[f] : f \in S} /\ B = {b[f] : f \in S} OBVIOUS
  <2> HIDE DEF A, B, a, b
  <2> QED BY <2>1, FiniteImage
<1>4. A \subseteq Int /\ B \subseteq Int BY DEF KeysOK
<1>5. s = [lo |-> s.lo, hi |-> s.hi] BY DEF GetRange
<1>6. Widened(r, S) = [lo |-> Min({r.lo} \cup A), hi |-> Max({r.hi} \cup B)] BY DEF Widened
<1>7. \A k : (k \in A <=> \E f \in S : k = f.smallest.key) /\ (k \in B <=> \E f \in S : k = f.largest.key)
  OBVIOUS
<1> HIDE DEF r, s, A, B, a, b
<1>8. Min({r.lo} \cup A) = s.lo
  <2> DEFINE T == {r.lo} \cup A
  <2>1. T \in SUBSET Int /\ IsFiniteSet(T) /\ T # {}
    BY <1>1, <1>3, <1>4, FS_Singleton, FS_Union
  <2>2. Min(T) \in T /\ \A x \in T : Min(T) <= x
    <3> HIDE DEF T
    <3> QED BY <2>1, MinMaxOf
  <2> DEFINE m == Min(T)
  <2>3. m \in T /\ m \in Int /\ \A x \in T : m <= x BY <2>1, <2>2
  <2> HIDE DEF m
  <2>4. m = r.lo \/ \E f \in S : m = f.smallest.key BY <1>7, <2>3
  <2>5. \E f \in J \cup S : m = f.smallest.key BY <1>1, <2>4
  <2>6. s.lo <= m BY <1>2, <2>5
  <2>7. m <= s.lo
    <3>1. PICK f \in J \cup S : s.lo = f.smallest.key BY <1>2
    <3>2. CASE f \in S
      <4>1. s.lo \in T BY <1>7, <3>1, <3>2
      <4> QED BY <2>3, <4>1
    <3>3. CASE f \in J
      <4>1. r.lo <= s.lo BY <1>1, <3>1, <3>3
      <4>2. m <= r.lo BY <2>3
      <4> QED BY <1>1, <1>2, <2>3, <4>1, <4>2
    <3> QED BY <3>1, <3>2, <3>3
  <2>8. m = s.lo BY <1>2, <2>3, <2>6, <2>7
  <2> QED BY <2>8 DEF m
<1>9. Max({r.hi} \cup B) = s.hi
  <2> DEFINE T == {r.hi} \cup B
  <2>1. T \in SUBSET Int /\ IsFiniteSet(T) /\ T # {}
    BY <1>1, <1>3, <1>4, FS_Singleton, FS_Union
  <2>2. Max(T) \in T /\ \A x \in T : Max(T) >= x
    <3> HIDE DEF T
    <3> QED BY <2>1, MinMaxOf
  <2> DEFINE m == Max(T)
  <2>3. m \in T /\ m \in Int /\ \A x \in T : m >= x BY <2>1, <2>2
  <2> HIDE DEF m
  <2>4. m = r.hi \/ \E f \in S : m = f.largest.key BY <1>7, <2>3
  <2>5. \E f \in J \cup S : m = f.largest.key BY <1>1, <2>4
  <2>6. m <= s.hi BY <1>2, <2>5
  <2>7. m >= s.hi
    <3>1. PICK f \in J \cup S : s.hi = f.largest.key BY <1>2
    <3>2. CASE f \in S
      <4>1. s.hi \in T BY <1>7, <3>1, <3>2
      <4> QED BY <2>3, <4>1
    <3>3. CASE f \in J
      <4>1. s.hi <= r.hi BY <1>1, <3>1, <3>3
      <4>2. m >= r.hi BY <2>3
      <4> QED BY <1>1, <1>2, <2>3, <4>1, <4>2
    <3> QED BY <3>1, <3>2, <3>3
  <2>8. m = s.hi BY <1>2, <2>3, <2>6, <2>7
  <2> QED BY <2>8 DEF m
<1>10. Widened(r, S) = s BY <1>5, <1>6, <1>8, <1>9
<1> QED BY <1>10 DEF r, s

(* The files of J and X cover their hull, and X has those of files that J    *)
(* has.                                                                      *)
Reaches(J, X, files) ==
  /\ X \subseteq files /\ J \cap files \subseteq X
  /\ Covers(J \cup X, GetRange(J \cup X))

(* The files a hull overlaps, among them those it is of.                     *)
LEMMA OverlapReaches ==
  ASSUME NEW files, IsFiniteSet(files), KeysOK(files),
         NEW J, IsFiniteSet(J), J # {}, KeysOK(J), Covers(J, GetRange(J))
  PROVE  Reaches(J, Overlapping(files, GetRange(J)), files)
<1> DEFINE r == GetRange(J)
           X == Overlapping(files, r)
<1>1. /\ r.lo \in Int /\ r.hi \in Int
      /\ \A f \in J : r.lo <= f.smallest.key /\ f.largest.key <= r.hi
  BY RangeOf
<1>2. X \subseteq files /\ \A g \in X : r.lo <= g.largest.key /\ g.smallest.key <= r.hi
  BY DEF Overlapping
<1>3. J \cap files \subseteq X
  <2> SUFFICES ASSUME NEW f \in J, f \in files PROVE r.lo <= f.largest.key /\ f.smallest.key <= r.hi
    BY DEF Overlapping
  <2>1. f.smallest.key \in Int /\ f.largest.key \in Int /\ f.smallest.key <= f.largest.key
    BY DEF KeysOK
  <2>2. r.lo <= f.smallest.key /\ f.largest.key <= r.hi BY <1>1
  <2> HIDE DEF r
  <2> QED BY <1>1, <2>1, <2>2
<1> HIDE DEF X
<1>4. IsFiniteSet(X) /\ KeysOK(X) BY <1>2, FS_Subset DEF KeysOK
<1>5. Covers(J \cup X, GetRange(J \cup X)) BY <1>2, <1>4, HullJoin
<1> QED BY <1>2, <1>3, <1>5 DEF Reaches, X

(* ... and so does each round of GetOverlappingInputs at level 0.            *)
LEMMA RoundsReach ==
  ASSUME NEW files, IsFiniteSet(files), KeysOK(files),
         NEW J, IsFiniteSet(J), J # {}, KeysOK(J), Covers(J, GetRange(J)),
         NEW m \in Nat, NEW g, Rounds(g, files, GetRange(J), m)
  PROVE  Reaches(J, g[m], files)
<1> DEFINE N == {n \in Nat : n <= m => Reaches(J, g[n], files)}
<1>0. \A n \in 0 .. m : g[n] = IF n = 0 THEN Overlapping(files, GetRange(J))
                               ELSE Overlapping(files, Widened(GetRange(J), g[n - 1]))
  BY DEF Rounds
<1>1. 0 \in N BY <1>0, OverlapReaches
<1>2. ASSUME NEW n \in Nat, n \in N PROVE n + 1 \in N
  <2> SUFFICES ASSUME n + 1 <= m PROVE Reaches(J, g[n + 1], files) OBVIOUS
  <2>1. n + 1 \in 0 .. m /\ n + 1 # 0 /\ n + 1 - 1 = n /\ n <= m OBVIOUS
  <2> DEFINE X == g[n]
             Y == g[n + 1]
             K == J \cup X
  <2>2. Y = Overlapping(files, Widened(GetRange(J), X)) BY <1>0, <2>1
  <2>3. Reaches(J, X, files) BY <1>2, <2>1
  <2> HIDE DEF X, Y
  <2>4. IsFiniteSet(X) /\ KeysOK(X) BY <2>3, FS_Subset DEF Reaches, KeysOK
  <2>5. Y = Overlapping(files, GetRange(K)) BY <2>2, <2>4, WidenedIsHull
  <2>6. IsFiniteSet(K) /\ K # {} /\ KeysOK(K) BY <2>4, FS_Union DEF KeysOK
  <2>7. Covers(K, GetRange(K)) BY <2>3 DEF Reaches
  <2>8. X \subseteq K /\ J \subseteq K /\ K = J \cup X OBVIOUS
  <2> HIDE DEF K
  <2>9. Reaches(K, Y, files) BY <2>5, <2>6, <2>7, OverlapReaches
  <2>10. X \subseteq Y BY <2>3, <2>8, <2>9 DEF Reaches
  <2>11. K \cup Y = J \cup Y BY <2>8, <2>10
  <2>12. Reaches(J, Y, files) BY <2>8, <2>9, <2>11 DEF Reaches
  <2> QED BY <2>12 DEF Y
<1>3. m \in N
  <2> HIDE DEF N
  <2> QED BY <1>1, <1>2, NatSetInduction
<1> QED BY <1>3

(* GetOverlappingInputs, at every level.                                     *)
LEMMA InputsReach ==
  ASSUME NEW v, NEW l, IsFiniteSet(v[l]), KeysOK(v[l]),
         NEW J, IsFiniteSet(J), J # {}, KeysOK(J), Covers(J, GetRange(J))
  PROVE  Reaches(J, GetOverlappingInputs(v, l, GetRange(J)), v[l])
<1> DEFINE r == GetRange(J)
           files == v[l]
           round == CHOOSE g : Rounds(g, files, r, Cardinality(files))
<1>1. Cardinality(files) \in Nat BY FS_CardinalityType
<1>2. Rounds(round, files, r, Cardinality(files)) BY <1>1, RoundsExist
<1>3. GetOverlappingInputs(v, l, r) = IF l = 0 THEN round[Cardinality(files)]
                                      ELSE Overlapping(files, r)
  BY DEF GetOverlappingInputs, Rounds, Widened
<1>4. IsFiniteSet(files) /\ KeysOK(files) OBVIOUS
<1>5. Reaches(J, Overlapping(files, r), files) BY OverlapReaches
<1> HIDE DEF round, files
<1>6. Reaches(J, round[Cardinality(files)], files) BY <1>1, <1>2, <1>4, RoundsReach
<1>7. Reaches(J, GetOverlappingInputs(v, l, r), files)
  <2> HIDE DEF r
  <2> QED BY <1>3, <1>5, <1>6
<1> QED BY <1>7 DEF files

(* What the inputs of a compaction are: all files of the level below that    *)
(* its own files overlap, and together they leave no gap.                    *)
InputsSound(v, c) ==
  /\ c.level \in 0 .. NumLevels - 2
  /\ c.in0 \subseteq v[c.level] /\ c.in0 # {}
  /\ c.in1 = Overlapping(v[c.level + 1], GetRange(c.in0))
  /\ Covers(c.in0 \cup c.in1, GetRange(c.in0 \cup c.in1))

(* A hull of more files is wider.                                            *)
LEMMA WiderRange ==
  ASSUME NEW F, NEW G, IsFiniteSet(G), F # {}, F \subseteq G, KeysOK(G)
  PROVE  /\ GetRange(F).lo \in Int /\ GetRange(F).hi \in Int
         /\ GetRange(G).lo \in Int /\ GetRange(G).hi \in Int
         /\ GetRange(G).lo <= GetRange(F).lo /\ GetRange(F).hi <= GetRange(G).hi
<1>1. IsFiniteSet(F) /\ KeysOK(F) /\ G # {} BY FS_Subset DEF KeysOK
<1> DEFINE r == GetRange(F)
           s == GetRange(G)
<1>2. /\ r.lo \in Int /\ r.hi \in Int
      /\ \E f \in F : r.lo = f.smallest.key
      /\ \E f \in F : r.hi = f.largest.key
  BY <1>1, RangeOf
<1>3. /\ s.lo \in Int /\ s.hi \in Int
      /\ \A f \in G : s.lo <= f.smallest.key /\ f.largest.key <= s.hi
  BY <1>1, RangeOf
<1> HIDE DEF r, s
<1>4. s.lo <= r.lo /\ r.hi <= s.hi BY <1>2, <1>3
<1> QED BY <1>2, <1>3, <1>4 DEF r, s

(* SetupOtherInputs, from inputs with no gap.                                *)
LEMMA SetupSound ==
  ASSUME NEW v, NEW l \in 0 .. NumLevels - 2, NEW I, NEW grow,
         IsFiniteSet(v[l]), KeysOK(v[l]), IsFiniteSet(v[l + 1]), KeysOK(v[l + 1]),
         I \subseteq v[l], I # {}, Covers(I, GetRange(I))
  PROVE  InputsSound(v, SetupOtherInputs(v, l, I, grow))
<1> DEFINE in1 == GetOverlappingInputs(v, l + 1, GetRange(I))
           J == I \cup in1
           ex0 == GetOverlappingInputs(v, l, GetRange(J))
           ex1 == GetOverlappingInputs(v, l + 1, GetRange(ex0))
           larger == /\ grow /\ in1 # {}
                     /\ Cardinality(ex0) > Cardinality(I)
                     /\ Cardinality(ex1) = Cardinality(in1)
           c == SetupOtherInputs(v, l, I, grow)
<1>1. c = IF larger THEN [level |-> l, in0 |-> ex0, in1 |-> ex1]
          ELSE [level |-> l, in0 |-> I, in1 |-> in1]
  BY DEF SetupOtherInputs
<1>2. \A r : GetOverlappingInputs(v, l + 1, r) = Overlapping(v[l + 1], r)
  <2>1. l + 1 # 0 BY LevelAssumption
  <2> QED BY <2>1 DEF GetOverlappingInputs
<1>3. IsFiniteSet(I) /\ KeysOK(I) BY FS_Subset DEF KeysOK
<1>4. Reaches(I, in1, v[l + 1]) BY <1>3, InputsReach
<1>5. in1 = Overlapping(v[l + 1], GetRange(I)) /\ ex1 = Overlapping(v[l + 1], GetRange(ex0))
  BY <1>2
<1>6. J = I \cup in1 OBVIOUS
<1>7. IsFiniteSet(in1) /\ KeysOK(in1)
  <2> HIDE DEF in1
  <2> QED BY <1>4, FS_Subset DEF Reaches, KeysOK
<1>8. IsFiniteSet(J) /\ J # {} /\ KeysOK(J) /\ Covers(J, GetRange(J))
  <2> HIDE DEF in1
  <2> QED BY <1>3, <1>4, <1>7, FS_Union DEF Reaches, KeysOK
<1>9. Reaches(J, ex0, v[l])
  <2> HIDE DEF J
  <2> QED BY <1>8, InputsReach
<1> HIDE DEF in1, J, ex0, ex1, larger, c
<1>10. CASE ~larger
  <2>1. c.level = l /\ c.in0 = I /\ c.in1 = in1 BY <1>1, <1>10
  <2> QED BY <1>5, <1>6, <1>8, <2>1 DEF InputsSound, c
<1>11. CASE larger
  <2>1. c.level = l /\ c.in0 = ex0 /\ c.in1 = ex1 BY <1>1, <1>11
  <2>2. I \subseteq ex0 /\ ex0 \subseteq v[l] BY <1>6, <1>9 DEF Reaches
  <2>3. IsFiniteSet(ex0) /\ KeysOK(ex0) /\ ex0 # {} BY <2>2, FS_Subset DEF KeysOK
  <2> DEFINE K == J \cup ex0
  <2>4. IsFiniteSet(K) /\ K # {} /\ KeysOK(K) /\ Covers(K, GetRange(K)) /\ ex0 \subseteq K
    BY <1>8, <1>9, <2>3, FS_Union DEF KeysOK, Reaches
  <2>5. K = I \cup in1 \cup ex0 BY <1>6
  <2> HIDE DEF K
  <2>6. IsFiniteSet(ex1) /\ KeysOK(ex1) /\ ex1 \subseteq v[l + 1]
        /\ \A g \in ex1 : GetRange(ex0).lo <= g.largest.key /\ g.smallest.key <= GetRange(ex0).hi
    <3>1. /\ ex1 \subseteq v[l + 1]
          /\ \A g \in ex1 : GetRange(ex0).lo <= g.largest.key /\ g.smallest.key <= GetRange(ex0).hi
      BY <1>5 DEF Overlapping
    <3> QED BY <3>1, FS_Subset DEF KeysOK
  <2>7. \A g \in ex1 : GetRange(K).lo <= g.largest.key /\ g.smallest.key <= GetRange(K).hi
    <3>1. /\ GetRange(ex0).lo \in Int /\ GetRange(ex0).hi \in Int
          /\ GetRange(K).lo \in Int /\ GetRange(K).hi \in Int
          /\ GetRange(K).lo <= GetRange(ex0).lo /\ GetRange(ex0).hi <= GetRange(K).hi
      BY <2>3, <2>4, WiderRange
    <3>2. \A g \in ex1 : g.largest.key \in Int /\ g.smallest.key \in Int BY <2>6 DEF KeysOK
    <3> QED BY <2>6, <3>1, <3>2
  <2>8. Covers(K \cup ex1, GetRange(K \cup ex1)) BY <2>4, <2>6, <2>7, HullJoin
  <2>9. in1 \subseteq ex1
    <3>1. /\ GetRange(I).lo \in Int /\ GetRange(I).hi \in Int
          /\ GetRange(ex0).lo \in Int /\ GetRange(ex0).hi \in Int
          /\ GetRange(ex0).lo <= GetRange(I).lo /\ GetRange(I).hi <= GetRange(ex0).hi
      BY <2>2, <2>3, WiderRange
    <3>2. \A g \in in1 : g.largest.key \in Int /\ g.smallest.key \in Int BY <1>7 DEF KeysOK
    <3>3. \A g \in in1 : /\ g \in v[l + 1]
                         /\ GetRange(I).lo <= g.largest.key /\ g.smallest.key <= GetRange(I).hi
      BY <1>5 DEF Overlapping
    <3>4. ASSUME NEW g \in in1
          PROVE  /\ g \in v[l + 1]
                 /\ GetRange(ex0).lo <= g.largest.key /\ g.smallest.key <= GetRange(ex0).hi
      BY <3>1, <3>2, <3>3
    <3> QED BY <1>5, <3>4 DEF Overlapping
  <2>10. K \cup ex1 = ex0 \cup ex1 BY <2>2, <2>5, <2>9
  <2> QED BY <1>5, <2>1, <2>2, <2>3, <2>8, <2>10 DEF InputsSound, c
<1> QED BY <1>10, <1>11 DEF c

(* PickCompaction: the inputs leave no gap.                                  *)
LEMMA PickSound ==
  ASSUME NEW v, \A l \in Level : IsFiniteSet(v[l]) /\ KeysOK(v[l]), NEW c \in PickCompaction(v)
  PROVE  InputsSound(v, c)
<1>1. PICK l \in 0 .. NumLevels - 2 : c \in PicksOf(v, l) BY PicksByLevel
<1>2. PICK f \in v[l], grow \in BOOLEAN : c = SetupOtherInputs(v, l, PickedFrom(v, l, f), grow)
  BY <1>1 DEF PicksOf
<1>3. l \in Level /\ l + 1 \in Level BY LevelAssumption DEF Level
<1>4. IsFiniteSet(v[l]) /\ KeysOK(v[l]) /\ IsFiniteSet(v[l + 1]) /\ KeysOK(v[l + 1]) BY <1>3
<1> DEFINE F == {f}
           I == PickedFrom(v, l, f)
<1>5. f.smallest.key \in Int /\ f.largest.key \in Int /\ f.smallest.key <= f.largest.key
  BY <1>4 DEF KeysOK
<1>6. IsFiniteSet(F) /\ F # {} /\ KeysOK(F) BY <1>5, FS_Singleton DEF KeysOK
<1>7. Covers(F, GetRange(F))
  <2>1. GetRange(F).lo = f.smallest.key /\ GetRange(F).hi = f.largest.key
    <3>1. /\ \E h \in F : GetRange(F).lo = h.smallest.key
          /\ \E h \in F : GetRange(F).hi = h.largest.key
      <4> HIDE DEF F
      <4> QED BY <1>6, RangeOf
    <3> QED BY <3>1
  <2> QED BY <2>1 DEF Covers
<1>8. I \subseteq v[l] /\ I # {} /\ Covers(I, GetRange(I))
  <2>1. CASE l = 0
    <3>1. I = GetOverlappingInputs(v, l, GetRange(F)) BY <2>1 DEF PickedFrom
    <3>2. f \in F /\ F \subseteq v[l] OBVIOUS
    <3> HIDE DEF F, I
    <3>3. Reaches(F, I, v[l]) BY <1>4, <1>6, <1>7, <3>1, InputsReach
    <3>4. F \cup I = I BY <3>2, <3>3 DEF Reaches
    <3> QED BY <3>2, <3>3, <3>4 DEF Reaches
  <2>2. CASE l # 0
    <3>1. I = F BY <2>2 DEF PickedFrom
    <3> QED BY <1>7, <3>1
  <2> QED BY <2>1, <2>2
<1> HIDE DEF I
<1>9. InputsSound(v, SetupOtherInputs(v, l, I, grow)) BY <1>4, <1>8, SetupSound
<1> QED BY <1>2, <1>9 DEF I

(***************************************************************************)
(* Levels stay sorted when files are added where there is room.             *)
(***************************************************************************)

(* Finitely many entries.                                                   *)
Contents(S) == IsFiniteSet(S) /\ S \subseteq Entry

(* The bounds of a file are entries in their order.                          *)
Bounded(f) == f.smallest \in Entry /\ f.largest \in Entry /\ ~Before(f.largest, f.smallest)

(* Two files of a sorted level.                                              *)
Apart(f, g) == f = g \/ Before(f.largest, g.smallest) \/ Before(g.largest, f.smallest)

(* The entries a compaction has still to write and the bounds of its         *)
(* outputs.                                                                  *)
Bounds(c) == (UNION c.todo) \cup {f.smallest : f \in c.outs} \cup {f.largest : f \in c.outs}

(* File g is before or behind all of E.                                      *)
Aside(g, E) == (\A a \in E : Before(g.largest, a)) \/ (\A a \in E : Before(a, g.smallest))

(* The inputs p of a compaction are files of version v.                      *)
PickOK(p, v) ==
  /\ p.level \in 0 .. NumLevels - 2
  /\ p.in0 \subseteq v[p.level] /\ p.in1 \subseteq v[p.level + 1]

(* Compaction c has room in version v: at the level it writes to, files that *)
(* stay are aside of its outputs.                                            *)
Room(c, v) ==
  /\ PickOK(c.pick, v)
  /\ \A g \in v[c.pick.level + 1] :
       (\E f \in c.pick.in1 : f.number = g.number) \/ Aside(g, Bounds(c))

(* The keys between those of a compaction are in one of its inputs.          *)
Spanned(c) ==
  \A x \in Keys : (\E a, b \in Bounds(c) : a.key <= x /\ x <= b.key)
    => \E f \in c.pick.in0 \cup c.pick.in1 : f.smallest.key <= x /\ x <= f.largest.key

(* The outputs of a compaction are in order, and what it has still to write  *)
(* comes after them.                                                         *)
OutputsOrdered(c) ==
  /\ \A f, g \in c.outs : Apart(f, g)
  /\ \A f \in c.outs : \A S \in c.todo : \A a \in S : Before(f.largest, a)

(* The user keys of bounded files.                                           *)
LEMMA BoundedKeys ==
  ASSUME NEW F, \A f \in F : Bounded(f) PROVE KeysOK(F)
BY EntryFields, BeforeOrder DEF Bounded, KeysOK

(* File g is at level l when record e is applied to version v: it was there  *)
(* and stays, or is added.                                                   *)
Saved(v, e, l, g) ==
  \/ g \in v[l] /\ <<l, g.number>> \notin e.del
  \/ \E a \in e.add : a[1] = l /\ g = a[2]

(* The levels of the version a record leaves.                                *)
LEMMA SavedLevel ==
  ASSUME NEW v, NEW e, NEW l \in Level, NEW g
  PROVE  g \in BuilderSaveTo(v, e)[l] <=> Saved(v, e, l, g)
<1>1. BuilderSaveTo(v, e)[l] = {f \in v[l] : <<l, f.number>> \notin e.del}
                                 \cup {a[2] : a \in {b \in e.add : b[1] = l}}
  BY DEF BuilderSaveTo
<1> QED BY <1>1 DEF Saved

(* A level the memtable may go to has no file that meets its keys, nor has   *)
(* any level above it.                                                       *)
LEMMA PickedLevelClear ==
  ASSUME NEW v, NEW f, Bounded(f), NEW l \in PickLevelForMemTableOutput(v, GetRange({f}))
  PROVE  /\ l \in Level
         /\ l # 0 => \A m \in 0 .. l : \A g \in v[m] :
                       g.largest.key < f.smallest.key \/ f.largest.key < g.smallest.key
                         \/ g.largest.key \notin Int \/ g.smallest.key \notin Int
<1> DEFINE F == {f}
           r == GetRange(F)
<1>1. KeysOK(F) /\ IsFiniteSet(F) /\ F # {} BY BoundedKeys, FS_Singleton
<1>2. r.lo = f.smallest.key /\ r.hi = f.largest.key /\ r.lo \in Int /\ r.hi \in Int
  <2>1. /\ \E h \in F : GetRange(F).lo = h.smallest.key
        /\ \E h \in F : GetRange(F).hi = h.largest.key
        /\ GetRange(F).lo \in Int /\ GetRange(F).hi \in Int
    <3> HIDE DEF F
    <3> QED BY <1>1, RangeOf
  <2> QED BY <2>1
<1>3. l \in PickLevelForMemTableOutput(v, r) OBVIOUS
<1> HIDE DEF r
<1>4. CASE OverlapInLevel(v, 0, r)
  <2>1. l = 0 BY <1>3, <1>4 DEF PickLevelForMemTableOutput
  <2> QED BY <2>1, LevelAssumption DEF Level
<1>5. CASE ~OverlapInLevel(v, 0, r)
  <2>1. l \in 0 .. MaxMemCompactLevel /\ \A m \in 1 .. l : ~OverlapInLevel(v, m, r)
    BY <1>3, <1>5 DEF PickLevelForMemTableOutput
  <2>2. \A m \in 0 .. l : ~OverlapInLevel(v, m, r) BY <1>5, <2>1
  <2>3. l \in Level BY <2>1, LevelAssumption DEF Level
  <2>4. ASSUME NEW m \in 0 .. l, NEW g \in v[m], g.largest.key \in Int, g.smallest.key \in Int
        PROVE  g.largest.key < f.smallest.key \/ f.largest.key < g.smallest.key
    <3>1. ~(r.lo <= g.largest.key /\ g.smallest.key <= r.hi)
      BY <2>2 DEF OverlapInLevel, Overlapping
    <3> QED BY <1>2, <2>4, <3>1
  <2> QED BY <2>3, <2>4
<1> QED BY <1>4, <1>5

(* Files of a version whose keys do not meet are apart.                      *)
LEMMA ApartByKeys ==
  ASSUME NEW f, NEW g, Bounded(f), Bounded(g),
         g.largest.key < f.smallest.key \/ f.largest.key < g.smallest.key
  PROVE  Apart(f, g)
BY BeforeOrder DEF Bounded, Apart

(* Version v is sorted below level 0 and its files are bounded.              *)
SortedLevelsApart(v) == \A l \in Level \ {0} : \A f, g \in v[l] : Apart(f, g)

(* ... which is what the invariant LevelsSorted says of it.                  *)
LEMMA SortedIsApart ==
  ASSUME NEW v PROVE SortedLevels(v) <=> SortedLevelsApart(v)
BY DEF SortedLevels, SortedLevelsApart, Apart

(* A flush keeps the levels sorted.                                          *)
LEMMA FlushSorted ==
  ASSUME NEW v, SortedLevels(v), \A m \in Level : \A g \in v[m] : Bounded(g),
         NEW f, Bounded(f), NEW l \in PickLevelForMemTableOutput(v, GetRange({f})),
         NEW e, e.del = {}, e.add = {<<l, f>>}
  PROVE  SortedLevels(BuilderSaveTo(v, e))
<1>1. /\ l \in Level
      /\ l # 0 => \A m \in 0 .. l : \A g \in v[m] :
                    g.largest.key < f.smallest.key \/ f.largest.key < g.smallest.key
                      \/ g.largest.key \notin Int \/ g.smallest.key \notin Int
  BY PickedLevelClear
<1> SUFFICES ASSUME NEW m \in Level \ {0}, NEW g \in BuilderSaveTo(v, e)[m],
                    NEW h \in BuilderSaveTo(v, e)[m]
             PROVE  Apart(g, h)
  BY SortedIsApart DEF SortedLevelsApart
<1>2. ASSUME NEW k \in BuilderSaveTo(v, e)[m] PROVE k \in v[m] \/ (m = l /\ k = f)
  <2>1. \A a \in e.add : a[1] = l /\ a[2] = f OBVIOUS
  <2>2. m \in Level OBVIOUS
  <2>3. Saved(v, e, m, k) BY <2>2, SavedLevel
  <2> QED BY <2>1, <2>3 DEF Saved
<1>3. ASSUME m = l, NEW k \in v[m] PROVE Apart(f, k)
  <2>1. k.largest.key \in Int /\ k.smallest.key \in Int /\ Bounded(k)
    BY EntryFields DEF Bounded
  <2>2. l # 0 /\ m \in 0 .. l BY <1>1, <1>3 DEF Level
  <2> QED BY <1>1, <2>1, <2>2, ApartByKeys
<1>4. \A k, j \in v[m] : Apart(k, j) BY SortedIsApart DEF SortedLevelsApart
<1>5. \A k, j : Apart(k, j) => Apart(j, k) BY DEF Apart
<1>6. Apart(f, f) BY DEF Apart
<1> QED BY <1>2, <1>3, <1>4, <1>5, <1>6

(* So does a move.                                                           *)
LEMMA MoveSorted ==
  ASSUME NEW v, SortedLevels(v), \A m \in Level : IsFiniteSet(v[m]) /\ \A g \in v[m] : Bounded(g),
         NEW c, InputsSound(v, c), TRUE \in IsTrivialMove(v, c),
         NEW e, e.add = {<<c.level + 1, f>> : f \in c.in0}
  PROVE  SortedLevels(BuilderSaveTo(v, e))
<1>1. Cardinality(c.in0) = 1 /\ c.in1 = {} BY DEF IsTrivialMove
<1>2. c.level \in Level /\ c.level + 1 \in Level /\ c.in0 \subseteq v[c.level]
  BY LevelAssumption DEF InputsSound, Level
<1>3. IsFiniteSet(c.in0) BY <1>2, FS_Subset
<1>4. PICK f : c.in0 = {f} BY <1>1, <1>3, FS_Singleton
<1>5. Bounded(f) BY <1>2, <1>4
<1> DEFINE F == {f}
<1>6. KeysOK(F) /\ IsFiniteSet(F) /\ F # {} BY <1>5, BoundedKeys, FS_Singleton
<1>7. GetRange(F).lo = f.smallest.key /\ GetRange(F).hi = f.largest.key
  <2>1. /\ \E h \in F : GetRange(F).lo = h.smallest.key
        /\ \E h \in F : GetRange(F).hi = h.largest.key
    <3> HIDE DEF F
    <3> QED BY <1>6, RangeOf
  <2> QED BY <2>1
<1>8. Overlapping(v[c.level + 1], GetRange(F)) = {} BY <1>1, <1>4 DEF InputsSound
<1>9. ASSUME NEW k \in v[c.level + 1] PROVE Apart(f, k)
  <2>1. Bounded(k) BY <1>2
  <2>2. ~(f.smallest.key <= k.largest.key /\ k.smallest.key <= f.largest.key)
    BY <1>7, <1>8 DEF Overlapping
  <2>3. k.largest.key \in Int /\ k.smallest.key \in Int /\ f.largest.key \in Int /\ f.smallest.key \in Int
    BY <1>5, <2>1, EntryFields DEF Bounded
  <2> QED BY <1>5, <2>1, <2>2, <2>3, ApartByKeys
<1> SUFFICES ASSUME NEW m \in Level \ {0}, NEW g \in BuilderSaveTo(v, e)[m],
                    NEW h \in BuilderSaveTo(v, e)[m]
             PROVE  Apart(g, h)
  BY SortedIsApart DEF SortedLevelsApart
<1>10. e.add = {<<c.level + 1, f>>} BY <1>4
<1>11. ASSUME NEW k \in BuilderSaveTo(v, e)[m] PROVE k \in v[m] \/ (m = c.level + 1 /\ k = f)
  <2>1. \A a \in e.add : a[1] = c.level + 1 /\ a[2] = f BY <1>10
  <2>2. m \in Level OBVIOUS
  <2>3. Saved(v, e, m, k) BY <2>2, SavedLevel
  <2> QED BY <2>1, <2>3 DEF Saved
<1>12. \A k, j \in v[m] : Apart(k, j) BY SortedIsApart DEF SortedLevelsApart
<1>13. \A k, j : Apart(k, j) => Apart(j, k) BY DEF Apart
<1>14. Apart(f, f) BY DEF Apart
<1> QED BY <1>9, <1>11, <1>12, <1>13, <1>14

(* The outputs of a compaction fit where it has room.                        *)
LEMMA CompactionSorted ==
  ASSUME NEW v, SortedLevels(v), NEW c, Room(c, v), OutputsOrdered(c),
         NEW e, e.del = AddInputDeletions(c.pick),
         e.add = {<<c.pick.level + 1, f>> : f \in c.outs}
  PROVE  SortedLevels(BuilderSaveTo(v, e))
<1> DEFINE L == c.pick.level + 1
<1>1. L \in Level BY LevelAssumption DEF Room, PickOK, Level
<1>2. ASSUME NEW k \in v[L], <<L, k.number>> \notin e.del, NEW f \in c.outs PROVE Apart(k, f)
  <2>1. ~\E d \in c.pick.in1 : d.number = k.number BY <1>2 DEF AddInputDeletions
  <2>2. Aside(k, Bounds(c)) BY <2>1 DEF Room
  <2>3. f.smallest \in Bounds(c) /\ f.largest \in Bounds(c) BY DEF Bounds
  <2> QED BY <2>2, <2>3 DEF Aside, Apart
<1> SUFFICES ASSUME NEW m \in Level \ {0}, NEW g \in BuilderSaveTo(v, e)[m],
                    NEW h \in BuilderSaveTo(v, e)[m]
             PROVE  Apart(g, h)
  BY SortedIsApart DEF SortedLevelsApart
<1>3. ASSUME NEW k \in BuilderSaveTo(v, e)[m]
      PROVE  (k \in v[m] /\ <<m, k.number>> \notin e.del) \/ (m = L /\ k \in c.outs)
  <2>1. \A a \in e.add : a[1] = L /\ a[2] \in c.outs OBVIOUS
  <2>2. Saved(v, e, m, k) BY SavedLevel
  <2> QED BY <2>1, <2>2 DEF Saved
<1>4. \A k, j \in v[m] : Apart(k, j) BY SortedIsApart DEF SortedLevelsApart
<1>5. \A k, j : Apart(k, j) => Apart(j, k) BY DEF Apart
<1>6. \A k, j \in c.outs : Apart(k, j) BY DEF OutputsOrdered
<1> HIDE DEF L
<1> QED BY <1>2, <1>3, <1>4, <1>5, <1>6

(* File f has the bounds of its table in ts.                                *)
FileOK(f, ts) ==
  /\ f.number \in Nat /\ Bounded(f)
  /\ \A a \in TableIn(ts, f.number) : ~Before(a, f.smallest) /\ ~Before(f.largest, a)

(* The tables of files F in ts.                                             *)
Merged(F, ts) == UNION {TableIn(ts, f.number) : f \in F}

(* Every key of F's tables is within the hull.                              *)
LEMMA MergedInRange ==
  ASSUME NEW F, IsFiniteSet(F), F # {}, NEW ts, \A f \in F : FileOK(f, ts),
         NEW a \in Merged(F, ts), a \in Entry
  PROVE  /\ GetRange(F).lo \in Int /\ GetRange(F).hi \in Int
         /\ GetRange(F).lo <= a.key /\ a.key <= GetRange(F).hi
<1>1. KeysOK(F) BY BoundedKeys DEF FileOK
<1>2. /\ GetRange(F).lo \in Int /\ GetRange(F).hi \in Int
      /\ \A f \in F : GetRange(F).lo <= f.smallest.key /\ f.largest.key <= GetRange(F).hi
  BY <1>1, RangeOf
<1>3. PICK f \in F : a \in TableIn(ts, f.number) BY DEF Merged
<1>4. FileOK(f, ts) BY <1>3
<1>5. ~Before(a, f.smallest) /\ ~Before(f.largest, a) /\ f.smallest \in Entry /\ f.largest \in Entry
  BY <1>3, <1>4 DEF FileOK, Bounded
<1>6. f.smallest.key <= a.key /\ a.key <= f.largest.key BY <1>5, BeforeOrder
<1>7. f.smallest.key \in Int /\ a.key \in Int /\ f.largest.key \in Int BY <1>5, EntryFields
<1> QED BY <1>2, <1>3, <1>6, <1>7

(* File g of a sorted level that is none of the inputs is before or behind  *)
(* all they hold.                                                           *)
LEMMA OthersAside ==
  ASSUME NEW v, SortedLevels(v), NEW ts,
         \A m \in Level : IsFiniteSet(v[m]) /\ \A g \in v[m] : FileOK(g, ts),
         NEW p, InputsSound(v, p), NEW E, E \subseteq Entry, E \subseteq Merged(p.in0 \cup p.in1, ts),
         NEW g \in v[p.level + 1], g \notin p.in1
  PROVE  Aside(g, E)
<1> DEFINE L == p.level + 1
           r == GetRange(p.in0)
<1>1. L \in Level \ {0} /\ p.level \in Level BY LevelAssumption DEF InputsSound, Level
<1>2. p.in0 \subseteq v[p.level] /\ p.in0 # {} /\ p.in1 = Overlapping(v[L], r)
  BY DEF InputsSound
<1>3. IsFiniteSet(p.in0) /\ \A f \in p.in0 : FileOK(f, ts) BY <1>1, <1>2, FS_Subset
<1>4. KeysOK(p.in0) BY <1>3, BoundedKeys DEF FileOK
<1>5. r.lo \in Int /\ r.hi \in Int BY <1>2, <1>3, <1>4, RangeOf
<1>6. FileOK(g, ts) /\ Bounded(g) BY <1>1 DEF FileOK
<1>7. /\ g.smallest \in Entry /\ g.largest \in Entry /\ g.smallest.key \in Int /\ g.largest.key \in Int
      /\ g.smallest.key <= g.largest.key
  BY <1>6, EntryFields, BeforeOrder DEF Bounded
<1>8. ~(r.lo <= g.largest.key /\ g.smallest.key <= r.hi) BY <1>2 DEF Overlapping
<1>9. \A a \in Merged(p.in0, ts) \cap Entry : r.lo <= a.key /\ a.key <= r.hi
  BY <1>2, <1>3, MergedInRange
<1>10. ASSUME NEW h \in p.in1
       PROVE  /\ FileOK(h, ts) /\ Bounded(h) /\ Apart(g, h) /\ g # h
              /\ r.lo <= h.largest.key /\ h.smallest.key <= r.hi
  <2>1. h \in v[L] /\ r.lo <= h.largest.key /\ h.smallest.key <= r.hi BY <1>2 DEF Overlapping
  <2>2. Apart(g, h) BY <1>1, <2>1, SortedIsApart DEF SortedLevelsApart
  <2> QED BY <1>1, <2>1, <2>2 DEF FileOK
<1> HIDE DEF r, L
<1>11. ASSUME NEW a \in E, a \notin Merged(p.in0, ts)
       PROVE  \E h \in p.in1 : a \in TableIn(ts, h.number)
  <2>1. a \in Merged(p.in0 \cup p.in1, ts) OBVIOUS
  <2>2. PICK h \in p.in0 \cup p.in1 : a \in TableIn(ts, h.number) BY <2>1 DEF Merged
  <2>3. h \notin p.in0 BY <1>11, <2>2 DEF Merged
  <2> QED BY <2>2, <2>3
<1>12. CASE g.largest.key < r.lo
  <2> SUFFICES ASSUME NEW a \in E PROVE Before(g.largest, a) BY DEF Aside
  <2>1. a \in Entry /\ a.key \in Int BY EntryFields
  <2>2. CASE a \in Merged(p.in0, ts)
    <3>1. g.largest.key < a.key BY <1>5, <1>7, <1>9, <1>12, <2>1, <2>2
    <3> QED BY <1>7, <2>1, <3>1, BeforeOrder
  <2>3. CASE a \notin Merged(p.in0, ts)
    <3>1. PICK h \in p.in1 : a \in TableIn(ts, h.number) BY <1>11, <2>3
    <3>2. h.smallest \in Entry /\ h.largest \in Entry /\ ~Before(a, h.smallest)
      BY <1>10, <3>1 DEF FileOK, Bounded
    <3>3. g.smallest.key < h.largest.key
      <4>1. h.largest.key \in Int BY <3>2, EntryFields
      <4> QED BY <1>5, <1>7, <1>10, <1>12, <4>1
    <3>4. ~Before(h.largest, g.smallest) BY <1>7, <3>2, <3>3, BeforeOrder
    <3>5. Before(g.largest, h.smallest) BY <1>10, <3>4 DEF Apart
    <3> QED BY <1>7, <2>1, <3>2, <3>5, BeforeOrder
  <2> QED BY <2>2, <2>3
<1>13. CASE r.hi < g.smallest.key
  <2> SUFFICES ASSUME NEW a \in E PROVE Before(a, g.smallest) BY DEF Aside
  <2>1. a \in Entry /\ a.key \in Int BY EntryFields
  <2>2. CASE a \in Merged(p.in0, ts)
    <3>1. a.key < g.smallest.key BY <1>5, <1>7, <1>9, <1>13, <2>1, <2>2
    <3> QED BY <1>7, <2>1, <3>1, BeforeOrder
  <2>3. CASE a \notin Merged(p.in0, ts)
    <3>1. PICK h \in p.in1 : a \in TableIn(ts, h.number) BY <1>11, <2>3
    <3>2. h.smallest \in Entry /\ h.largest \in Entry /\ ~Before(h.largest, a)
      BY <1>10, <3>1 DEF FileOK, Bounded
    <3>3. h.smallest.key < g.largest.key
      <4>1. h.smallest.key \in Int BY <3>2, EntryFields
      <4> QED BY <1>5, <1>7, <1>10, <1>13, <4>1
    <3>4. ~Before(g.largest, h.smallest) BY <1>7, <3>2, <3>3, BeforeOrder
    <3>5. Before(h.largest, g.smallest) BY <1>10, <3>4 DEF Apart
    <3> QED BY <1>7, <2>1, <3>2, <3>5, BeforeOrder
  <2> QED BY <2>2, <2>3
<1> QED BY <1>5, <1>7, <1>8, <1>12, <1>13

(* A compaction that starts from sound inputs has room and spans its keys.  *)
LEMMA RoomAtStart ==
  ASSUME NEW v, SortedLevels(v), NEW ts,
         \A m \in Level : IsFiniteSet(v[m]) /\ \A g \in v[m] : FileOK(g, ts),
         NEW c, InputsSound(v, c.pick), Bounds(c) \subseteq Entry,
         Bounds(c) \subseteq Merged(c.pick.in0 \cup c.pick.in1, ts)
  PROVE  Room(c, v) /\ Spanned(c)
<1> DEFINE p == c.pick
           F == p.in0 \cup p.in1
           E == Bounds(c)
<1>1. p.level \in Level /\ p.level + 1 \in Level BY LevelAssumption DEF InputsSound, Level
<1>2. p.in0 \subseteq v[p.level] /\ p.in0 # {} /\ p.in1 \subseteq v[p.level + 1]
      /\ p.level \in 0 .. NumLevels - 2
  BY DEF InputsSound, Overlapping
<1>3. PickOK(p, v) BY <1>2 DEF PickOK
<1>4. ASSUME NEW g \in v[p.level + 1], ~\E f \in p.in1 : f.number = g.number PROVE Aside(g, E)
  <2>1. g \notin p.in1 BY <1>4
  <2>2. InputsSound(v, p) /\ E \subseteq Entry /\ E \subseteq Merged(p.in0 \cup p.in1, ts) OBVIOUS
  <2> HIDE DEF p, E
  <2> QED BY <2>1, <2>2, OthersAside
<1>5. Room(c, v) BY <1>3, <1>4 DEF Room
<1>6. IsFiniteSet(F) /\ F # {} /\ \A f \in F : FileOK(f, ts)
  <2>1. IsFiniteSet(v[p.level]) /\ IsFiniteSet(v[p.level + 1]) BY <1>1
  <2>2. IsFiniteSet(p.in0) /\ IsFiniteSet(p.in1) BY <1>2, <2>1, FS_Subset
  <2>3. IsFiniteSet(F) BY <2>2, FS_Union
  <2> QED BY <1>1, <1>2, <2>3
<1>7. Covers(F, GetRange(F)) BY DEF InputsSound
<1>8. Spanned(c)
  <2> SUFFICES ASSUME NEW x \in Keys, NEW a \in E, NEW b \in E, a.key <= x, x <= b.key
               PROVE  \E f \in F : f.smallest.key <= x /\ x <= f.largest.key
    BY DEF Spanned
  <2>1. E \subseteq Merged(F, ts) /\ E \subseteq Entry OBVIOUS
  <2> HIDE DEF F, E
  <2>2. /\ GetRange(F).lo \in Int /\ GetRange(F).hi \in Int
        /\ GetRange(F).lo <= a.key /\ b.key <= GetRange(F).hi
    BY <1>6, <2>1, MergedInRange
  <2>3. a.key \in Int /\ b.key \in Int BY <2>1, EntryFields
  <2>4. x \in Int
    BY KeysAreInts
  <2>5. GetRange(F).lo <= x /\ x <= GetRange(F).hi BY <2>2, <2>3, <2>4
  <2> QED BY <1>7, <2>4, <2>5 DEF Covers
<1> QED BY <1>5, <1>8

(* A file of keys that no input has is before or behind all the compaction   *)
(* holds.                                                                    *)
LEMMA FlushAside ==
  ASSUME NEW c, Spanned(c), Bounds(c) \subseteq Entry, NEW f, Bounded(f),
         \A h \in c.pick.in0 \cup c.pick.in1 :
           Bounded(h) /\ (h.largest.key < f.smallest.key \/ f.largest.key < h.smallest.key)
  PROVE  Aside(f, Bounds(c))
<1> DEFINE E == Bounds(c)
           H == c.pick.in0 \cup c.pick.in1
<1>1. /\ f.smallest \in Entry /\ f.largest \in Entry /\ f.smallest.key \in Keys
      /\ f.smallest.key \in Int /\ f.largest.key \in Int /\ f.smallest.key <= f.largest.key
  BY EntryFields, BeforeOrder DEF Bounded
<1>2. \A a \in E : a \in Entry /\ a.key \in Int /\ a.key \in Keys BY EntryFields
<1>3. \A h \in H : h.smallest.key \in Int /\ h.largest.key \in Int BY EntryFields DEF Bounded
<1>4. ASSUME NEW x \in Keys, NEW a \in E, NEW b \in E, a.key <= x, x <= b.key
      PROVE  \E h \in H : h.smallest.key <= x /\ x <= h.largest.key
  BY <1>4 DEF Spanned
<1>5. \A h \in H : h.largest.key < f.smallest.key \/ f.largest.key < h.smallest.key OBVIOUS
<1> HIDE DEF E, H
<1>6. ASSUME NEW a \in E PROVE a.key < f.smallest.key \/ f.largest.key < a.key
  <2>1. a.key \in Keys /\ a.key <= a.key /\ a.key \in Int BY <1>2
  <2>2. PICK h \in H : h.smallest.key <= a.key /\ a.key <= h.largest.key BY <1>4, <2>1
  <2> QED BY <1>1, <1>3, <1>5, <2>1, <2>2
<1>7. ASSUME NEW a \in E, NEW b \in E, a.key < f.smallest.key, f.largest.key < b.key PROVE FALSE
  <2>1. a.key <= f.smallest.key /\ f.smallest.key <= b.key BY <1>1, <1>2, <1>7
  <2>2. PICK h \in H : h.smallest.key <= f.smallest.key /\ f.smallest.key <= h.largest.key
    BY <1>1, <1>4, <2>1
  <2> QED BY <1>1, <1>3, <1>5, <2>2
<1>8. (\A a \in E : f.largest.key < a.key) \/ (\A a \in E : a.key < f.smallest.key)
  BY <1>6, <1>7
<1>9. (\A a \in E : Before(f.largest, a)) \/ (\A a \in E : Before(a, f.smallest))
  BY <1>1, <1>2, <1>8, BeforeOrder
<1> QED BY <1>9 DEF Aside, E

(* A flush leaves a compaction the room it has.                              *)
LEMMA RoomAfterFlush ==
  ASSUME NEW v, \A m \in Level : \A g \in v[m] : Bounded(g),
         NEW f, Bounded(f), NEW l \in PickLevelForMemTableOutput(v, GetRange({f})),
         NEW e, e.del = {}, e.add = {<<l, f>>},
         NEW c, Room(c, v), Spanned(c), Bounds(c) \subseteq Entry
  PROVE  Room(c, BuilderSaveTo(v, e))
<1> DEFINE w == BuilderSaveTo(v, e)
           p == c.pick
           L == p.level + 1
<1>0. /\ p.level \in Level /\ L \in Level /\ L # 0 /\ p.level \in 0 .. NumLevels - 2
      /\ p.in0 \subseteq v[p.level] /\ p.in1 \subseteq v[L]
  BY LevelAssumption DEF Room, PickOK, Level
<1>1. /\ l \in Level
      /\ l # 0 => \A m \in 0 .. l : \A g \in v[m] :
                    g.largest.key < f.smallest.key \/ f.largest.key < g.smallest.key
                      \/ g.largest.key \notin Int \/ g.smallest.key \notin Int
  BY PickedLevelClear
<1>2. ASSUME NEW m \in Level, NEW k PROVE k \in w[m] <=> (k \in v[m] \/ (m = l /\ k = f))
  <2>1. \A a \in e.add : a[1] = l /\ a[2] = f OBVIOUS
  <2>2. <<l, f>> \in e.add /\ <<l, f>>[1] = l /\ <<l, f>>[2] = f OBVIOUS
  <2>3. k \in w[m] <=> Saved(v, e, m, k) BY SavedLevel
  <2>4. \A x : x \notin e.del OBVIOUS
  <2> HIDE DEF w
  <2> QED BY <2>1, <2>2, <2>3, <2>4 DEF Saved
<1>3. PickOK(p, w) BY <1>0, <1>2 DEF PickOK
<1>4. ASSUME NEW g \in w[L], ~\E h \in p.in1 : h.number = g.number PROVE Aside(g, Bounds(c))
  <2>1. CASE g \in v[L] BY <1>4, <2>1 DEF Room
  <2>2. CASE L = l /\ g = f
    <3>1. ASSUME NEW h \in p.in0 \cup p.in1
          PROVE  Bounded(h) /\ (h.largest.key < f.smallest.key \/ f.largest.key < h.smallest.key)
      <4>1. PICK m \in {p.level, L} : h \in v[m] BY <1>0
      <4>2. m \in 0 .. l /\ m \in Level BY <1>0, <2>2, <4>1 DEF Level
      <4>3. Bounded(h) BY <4>1, <4>2
      <4>4. h.largest.key \in Int /\ h.smallest.key \in Int BY <4>3, EntryFields DEF Bounded
      <4> QED BY <1>0, <1>1, <2>2, <4>1, <4>2, <4>3, <4>4
    <3> HIDE DEF w
    <3>2. Aside(f, Bounds(c)) BY <3>1, FlushAside
    <3> QED BY <2>2, <3>2
  <2> QED BY <1>0, <1>2, <1>4, <2>1, <2>2
<1> HIDE DEF w
<1>5. Room(c, w) BY <1>3, <1>4 DEF Room
<1> QED BY <1>5 DEF w

(* A flush of nothing changes no level.                                      *)
LEMMA SameLevels ==
  ASSUME NEW v, NEW e, e.del = {}, e.add = {}
  PROVE  \A l \in Level : BuilderSaveTo(v, e)[l] = v[l]
<1> SUFFICES ASSUME NEW l \in Level PROVE BuilderSaveTo(v, e)[l] = v[l] OBVIOUS
<1>1. \A g : g \in BuilderSaveTo(v, e)[l] <=> Saved(v, e, l, g) BY SavedLevel
<1>2. \A g : Saved(v, e, l, g) <=> g \in v[l] BY DEF Saved
<1> QED BY <1>1, <1>2

(* ... and what is said of the levels stays.                                 *)
LEMMA SameRoom ==
  ASSUME NEW v, NEW w, \A l \in Level : w[l] = v[l]
  PROVE  /\ SortedLevels(v) => SortedLevels(w)
         /\ \A c : Room(c, v) => Room(c, w)
<1>1. SortedLevels(v) => SortedLevels(w) BY DEF SortedLevels
<1>2. ASSUME NEW c, Room(c, v) PROVE Room(c, w)
  <2>1. c.pick.level \in Level /\ c.pick.level + 1 \in Level
    BY <1>2, LevelAssumption DEF Room, PickOK, Level
  <2> QED BY <1>2, <2>1 DEF Room, PickOK
<1> QED BY <1>1, <1>2

(* What a compaction holds grows less: it keeps its room and its span.       *)
LEMMA LessIsRoom ==
  ASSUME NEW c, NEW d, d.pick = c.pick, Bounds(d) \subseteq Bounds(c)
  PROVE  /\ Spanned(c) => Spanned(d)
         /\ \A v : Room(c, v) => Room(d, v)
<1>1. Spanned(c) => Spanned(d) BY DEF Spanned
<1>2. \A g : Aside(g, Bounds(c)) => Aside(g, Bounds(d)) BY DEF Aside
<1>3. \A v : Room(c, v) => Room(d, v) BY <1>2 DEF Room
<1> QED BY <1>1, <1>3

(* An output made of the first entries still to write keeps the outputs in   *)
(* order, and holds nothing new.                                             *)
LEMMA OutputOrdered ==
  ASSUME NEW c, OutputsOrdered(c), NEW S \in c.todo, Contents(S), S # {},
         \A T \in c.todo \ {S} : \A a \in S, b \in T : Before(a, b),
         NEW n, NEW d, d.todo = c.todo \ {S}, d.outs = c.outs \cup {FileMetaData(n, S)}
  PROVE  OutputsOrdered(d) /\ Bounds(d) \subseteq Bounds(c)
<1> DEFINE f == FileMetaData(n, S)
<1>1. f.smallest \in S /\ f.largest \in S BY BuiltBounds DEF Contents
<1> HIDE DEF f
<1>2. d.outs = c.outs \cup {f} BY DEF f
<1>3. ASSUME NEW g \in c.outs PROVE Apart(f, g) /\ Apart(g, f)
  BY <1>1 DEF OutputsOrdered, Apart
<1>4. Apart(f, f) BY DEF Apart
<1>5. \A g, h \in d.outs : Apart(g, h) BY <1>2, <1>3, <1>4 DEF OutputsOrdered
<1>6. ASSUME NEW g \in d.outs, NEW T \in d.todo, NEW a \in T PROVE Before(g.largest, a)
  <2>1. CASE g \in c.outs BY <2>1 DEF OutputsOrdered
  <2>2. CASE g = f BY <1>1, <2>2
  <2> QED BY <1>2, <2>1, <2>2
<1>7. Bounds(d) \subseteq Bounds(c)
  <2> SUFFICES ASSUME NEW a \in Bounds(d) PROVE a \in Bounds(c) OBVIOUS
  <2>1. CASE a \in UNION d.todo BY <2>1 DEF Bounds
  <2>2. ASSUME NEW g \in d.outs, a = g.smallest \/ a = g.largest PROVE a \in Bounds(c)
    <3>1. CASE g = f BY <1>1, <2>2, <3>1 DEF Bounds
    <3>2. CASE g \in c.outs BY <2>2, <3>2 DEF Bounds
    <3> QED BY <1>2, <3>1, <3>2
  <2> QED BY <2>1, <2>2 DEF Bounds
<1> QED BY <1>5, <1>6, <1>7 DEF OutputsOrdered

(* The outputs of a compaction are parts of what its inputs hold, none of    *)
(* them empty.                                                               *)
LEMMA OutputsOf ==
  ASSUME NEW input, Contents(input), NEW v, NEW l, NEW s, NEW cuts
  PROVE  \A S \in Outputs(KeptEntries(input, v, l, s), cuts) :
           Contents(S) /\ S # {} /\ S \subseteq input
<1> DEFINE kept == KeptEntries(input, v, l, s)
<1>1. kept \subseteq input BY DEF KeptEntries
<1> HIDE DEF kept
<1> SUFFICES ASSUME NEW S \in Outputs(kept, cuts) PROVE Contents(S) /\ S # {} /\ S \subseteq input
  BY DEF kept
<1>2. PICK e \in kept : S = {d \in kept : {c \in cuts : ~Before(d, c)} = {c \in cuts : ~Before(e, c)}}
  BY DEF Outputs
<1>3. e \in S /\ S \subseteq input BY <1>1, <1>2
<1>4. S \in SUBSET input BY <1>3
<1> QED BY <1>3, <1>4, FS_Subset DEF Contents

(* The tables of finitely many files hold finitely many entries.             *)
LEMMA MergedContents ==
  ASSUME NEW ts, \A n \in DOMAIN ts : Contents(ts[n]), NEW F, IsFiniteSet(F)
  PROVE  Contents(Merged(F, ts))
<1> DEFINE t == [f \in F |-> TableIn(ts, f.number)]
           M == {t[f] : f \in F}
<1>1. Merged(F, ts) = UNION M BY DEF Merged
<1>2. \A f \in F : Contents(t[f])
  <2>1. Contents({}) BY FS_EmptySet DEF Contents
  <2> QED BY <2>1 DEF TableIn
<1>3. IsFiniteSet(M)
  <2> HIDE DEF t
  <2> QED BY FiniteImage
<1>4. \A T \in M : IsFiniteSet(T) /\ T \subseteq Entry BY <1>2 DEF Contents
<1> HIDE DEF M
<1> QED BY <1>1, <1>3, <1>4, FS_UNION DEF Contents

(***************************************************************************)
(* The log format: what is read of a log are records written to it.         *)
(***************************************************************************)

(* f has the fields of a log file, and its fragments are a sequence.         *)
IsLogFile(f) ==
  /\ f = [length |-> f.length, fragments |-> f.fragments, records |-> f.records]
  /\ IsSeq(f.fragments)

(* Another fragment leaves a log file.                                       *)
LEMMA EmitKeepsLog ==
  ASSUME NEW f, IsLogFile(f), NEW p, NEW t, NEW n
  PROVE  IsLogFile(Log!EmitPhysicalRecord(f, p, t, n))
<1> DEFINE x == [at |-> p, type |-> t, len |-> n, of |-> f.records]
           l == p + kHeaderSize + n
           g == Log!EmitPhysicalRecord(f, p, t, n)
           a == Append(f.fragments, x)
           e == [f EXCEPT !.length = l]
<1>1. f = [length |-> f.length, fragments |-> f.fragments, records |-> f.records]
  BY DEF IsLogFile
<1>2. g = [e EXCEPT !.fragments = Append(@, x)] BY DEF Log!EmitPhysicalRecord
<1>3. e = [length |-> l, fragments |-> f.fragments, records |-> f.records] BY <1>1
<1> HIDE DEF e, g, x, l
<1>4. g = [length |-> l, fragments |-> a, records |-> f.records] BY <1>2, <1>3
<1>5. IsSeq(a) BY AppendIsSeq DEF IsLogFile
<1> HIDE DEF a
<1>6. IsLogFile(g) BY <1>4, <1>5 DEF IsLogFile
<1> QED BY <1>6 DEF g

(* One turn of the loop of AddRecord.                                        *)
Turn(s) ==
  LET p == Log!SkipTrailer(s.file.length)
      avail == kBlockSize - (p % kBlockSize) - kHeaderSize
      n == IF s.left < avail THEN s.left ELSE avail
  IN  [file |-> Log!EmitPhysicalRecord(s.file, p, Log!FragmentType(s.begin, s.left, n), n),
       left |-> s.left - n, begin |-> FALSE]

(* Before the first of them,                                                 *)
FirstTurn(file, size) ==
  [file |-> [file EXCEPT !.records = @ + 1], left |-> size, begin |-> TRUE]
(* ... and after one more, if there is something left to write.              *)
NextTurn(s) == IF s.begin \/ s.left > 0 THEN Turn(s) ELSE s

(* g gives the state after each of the first m turns.                        *)
Turns(g, file, size, m) ==
  g = [k \in 0 .. m |-> IF k = 0 THEN FirstTurn(file, size) ELSE NextTurn(g[k - 1])]

(* What AddRecord writes is there after all the turns a record may need.     *)
LEMMA AddRecordTurns ==
  ASSUME NEW file, NEW size
  PROVE  Log!AddRecord(file, size) = (CHOOSE g : Turns(g, file, size, size + 2))[size + 2].file
BY DEF Log!AddRecord, Turns, FirstTurn, NextTurn, Turn

(* There are such turns, as many as one likes.                               *)
LEMMA TurnsExist ==
  ASSUME NEW file, NEW size, NEW m \in Nat
  PROVE  \E g : Turns(g, file, size, m)
<1> DEFINE S == {k \in Nat : \E g : Turns(g, file, size, k)}
<1>1. 0 \in S
  <2>1. Turns([n \in 0 .. 0 |-> FirstTurn(file, size)], file, size, 0) BY DEF Turns
  <2> QED BY <2>1
<1>2. ASSUME NEW k \in Nat, k \in S PROVE k + 1 \in S
  <2>1. PICK g : Turns(g, file, size, k) BY <1>2
  <2> DEFINE last == NextTurn(g[k])
             h == [n \in 0 .. k + 1 |-> IF n = k + 1 THEN last ELSE g[n]]
             e == [n \in 0 .. k + 1 |-> IF n = 0 THEN FirstTurn(file, size) ELSE NextTurn(h[n - 1])]
  <2>2. ASSUME NEW n \in 0 .. k + 1 PROVE h[n] = e[n]
    <3>1. CASE n = k + 1
      <4>1. n # 0 /\ n - 1 = k /\ k \in 0 .. k + 1 /\ k # k + 1 BY <3>1
      <4>2. h[k] = g[k] BY <4>1
      <4>3. e[n] = NextTurn(h[k]) BY <3>1, <4>1
      <4>4. h[n] = last BY <3>1
      <4> HIDE DEF h, e
      <4> QED BY <4>2, <4>3, <4>4
    <3>2. CASE n # k + 1
      <4>1. n \in 0 .. k BY <3>2
      <4>2. h[n] = g[n] BY <3>2
      <4>3. g[n] = IF n = 0 THEN FirstTurn(file, size) ELSE NextTurn(g[n - 1])
        BY <2>1, <4>1 DEF Turns
      <4>4. e[n] = IF n = 0 THEN FirstTurn(file, size) ELSE NextTurn(h[n - 1])
        OBVIOUS
      <4>5. n # 0 => h[n - 1] = g[n - 1]
        <5> SUFFICES ASSUME n # 0 PROVE h[n - 1] = g[n - 1] OBVIOUS
        <5>1. n - 1 \in 0 .. k + 1 /\ n - 1 # k + 1 BY <4>1
        <5> QED BY <5>1
      <4> HIDE DEF h, e
      <4> QED BY <4>2, <4>3, <4>4, <4>5
    <3> QED BY <3>1, <3>2
  <2>3. h = e BY <2>2
  <2>4. Turns(h, file, size, k + 1) BY <2>3 DEF Turns
  <2> HIDE DEF h
  <2> QED BY <2>4
<1> HIDE DEF S
<1>3. m \in S BY <1>1, <1>2, NatSetInduction
<1> QED BY <1>3 DEF S

(* AddRecord keeps the shape of the file.                                    *)
LEMMA AddRecordKeepsLog ==
  ASSUME NEW file, IsLogFile(file), NEW size \in Nat
  PROVE  IsLogFile(Log!AddRecord(file, size))
<1> DEFINE m == size + 2
           g == CHOOSE t : Turns(t, file, size, m)
<1>1. m \in Nat OBVIOUS
<1>2. Turns(g, file, size, m) BY <1>1, TurnsExist
<1>3. Log!AddRecord(file, size) = g[m].file BY AddRecordTurns
<1> HIDE DEF m, g
<1>4. \A k \in 0 .. m : g[k] = IF k = 0 THEN FirstTurn(file, size) ELSE NextTurn(g[k - 1])
  BY <1>2 DEF Turns
<1> DEFINE S == {k \in Nat : k <= m => IsLogFile(g[k].file)}
<1>5. 0 \in S
  <2>1. g[0].file = [file EXCEPT !.records = @ + 1] BY <1>1, <1>4 DEF FirstTurn
  <2>2. file = [length |-> file.length, fragments |-> file.fragments, records |-> file.records]
        /\ IsSeq(file.fragments)
    BY DEF IsLogFile
  <2>3. g[0].file = [length |-> file.length, fragments |-> file.fragments,
                     records |-> file.records + 1]
    BY <2>1, <2>2
  <2>4. IsLogFile(g[0].file) BY <2>2, <2>3 DEF IsLogFile
  <2> QED BY <2>4
<1>6. ASSUME NEW k \in Nat, k \in S PROVE k + 1 \in S
  <2> SUFFICES ASSUME k + 1 <= m PROVE IsLogFile(g[k + 1].file) OBVIOUS
  <2>1. k + 1 \in 0 .. m /\ k + 1 # 0 /\ k + 1 - 1 = k /\ k <= m BY <1>1
  <2>2. g[k + 1] = NextTurn(g[k]) BY <1>4, <2>1
  <2>3. IsLogFile(g[k].file) BY <1>6, <2>1
  <2>4. ASSUME NEW s, IsLogFile(s.file) PROVE IsLogFile(NextTurn(s).file)
    <3>1. IsLogFile(Turn(s).file)
      <4>1. PICK p, t, n : Turn(s).file = Log!EmitPhysicalRecord(s.file, p, t, n) BY DEF Turn
      <4> QED BY <2>4, <4>1, EmitKeepsLog
    <3> QED BY <2>4, <3>1 DEF NextTurn
  <2> QED BY <2>2, <2>3, <2>4
<1> HIDE DEF S
<1>7. m \in S BY <1>1, <1>5, <1>6, NatSetInduction
<1> QED BY <1>1, <1>3, <1>7 DEF S

(* f folds AddRecord over the first m sizes of es, for every set of them.    *)
FoldsWritten(f, es, m) ==
  f = [s \in SUBSET (1 .. m) |->
         IF s = {} THEN Log!EmptyFile ELSE Log!AddRecord(f[s \ {Max(s)}], es[Max(s)])]

(* A fold over m records gives one over m + 1.                               *)
LEMMA FoldsWrittenNext ==
  ASSUME NEW es, NEW m \in Nat, NEW f, FoldsWritten(f, es, m)
  PROVE  \E g : FoldsWritten(g, es, m + 1)
<1> DEFINE g == [s \in SUBSET (1 .. m + 1) |->
                   IF m + 1 \in s THEN Log!AddRecord(f[s \ {m + 1}], es[m + 1]) ELSE f[s]]
           h == [s \in SUBSET (1 .. m + 1) |->
                   IF s = {} THEN Log!EmptyFile ELSE Log!AddRecord(g[s \ {Max(s)}], es[Max(s)])]
<1>1. ASSUME NEW s \in SUBSET (1 .. m + 1) PROVE g[s] = h[s]
  <2>1. CASE m + 1 \in s
    <3>1. Max(s) = m + 1 BY <2>1, MaxIsLast
    <3>2. s \ {m + 1} \in SUBSET (1 .. m + 1) /\ m + 1 \notin s \ {m + 1} OBVIOUS
    <3>3. g[s \ {m + 1}] = f[s \ {m + 1}] BY <3>2
    <3>4. h[s] = Log!AddRecord(g[s \ {m + 1}], es[m + 1]) BY <3>1, <2>1
    <3>5. g[s] = Log!AddRecord(f[s \ {m + 1}], es[m + 1]) BY <2>1
    <3> HIDE DEF g, h
    <3> QED BY <3>3, <3>4, <3>5
  <2>2. CASE m + 1 \notin s
    <3>1. s \in SUBSET (1 .. m) BY <2>2
    <3>2. g[s] = f[s] BY <2>2
    <3>3. f[s] = IF s = {} THEN Log!EmptyFile ELSE Log!AddRecord(f[s \ {Max(s)}], es[Max(s)])
      BY <3>1 DEF FoldsWritten
    <3>4. s \ {Max(s)} \in SUBSET (1 .. m + 1) /\ m + 1 \notin s \ {Max(s)} BY <2>2
    <3>5. g[s \ {Max(s)}] = f[s \ {Max(s)}] BY <3>4
    <3>6. h[s] = IF s = {} THEN Log!EmptyFile ELSE Log!AddRecord(g[s \ {Max(s)}], es[Max(s)]) OBVIOUS
    <3> HIDE DEF g, h
    <3> QED BY <3>2, <3>3, <3>5, <3>6
  <2> QED BY <2>1, <2>2
<1>2. g = h BY <1>1
<1>3. FoldsWritten(g, es, m + 1) BY <1>2 DEF FoldsWritten
<1> HIDE DEF g
<1> QED BY <1>3

(* Written is such a fold.                                                   *)
LEMMA WrittenFolds ==
  ASSUME NEW es, NEW n \in Nat, DOMAIN es = 1 .. n
  PROVE  \E f : FoldsWritten(f, es, n) /\ Log!Written(es) = f[1 .. n]
<1> DEFINE S == {m \in Nat : \E f : FoldsWritten(f, es, m)}
<1>1. 0 \in S
  <2>1. FoldsWritten([s \in SUBSET (1 .. 0) |-> Log!EmptyFile], es, 0)
    <3>1. SUBSET (1 .. 0) = {{}} OBVIOUS
    <3> QED BY <3>1 DEF FoldsWritten
  <2> QED BY <2>1
<1>2. \A m \in Nat : m \in S => m + 1 \in S BY FoldsWrittenNext
<1>3. n \in S
  <2> HIDE DEF S
  <2> QED BY <1>1, <1>2, NatSetInduction
<1> DEFINE iter == CHOOSE f : FoldsWritten(f, es, n)
<1>4. FoldsWritten(iter, es, n) BY <1>3
<1>5. Log!Written(es) = iter[1 .. n]
  BY DEF Log!Written, Log!FoldLeft, Log!MapThenFoldSet, Log!Max, FoldsWritten, Max
<1> HIDE DEF iter
<1> QED BY <1>4, <1>5

(* What is written has the shape of a log file.                              *)
LEMMA WrittenIsLog ==
  ASSUME NEW es, NEW n \in Nat, DOMAIN es = 1 .. n, \A i \in 1 .. n : es[i] \in Nat
  PROVE  IsLogFile(Log!Written(es))
<1>1. PICK f : FoldsWritten(f, es, n) /\ Log!Written(es) = f[1 .. n]
  BY WrittenFolds
<1> DEFINE S == {m \in Nat : m <= n => IsLogFile(f[1 .. m])}
<1>2. 0 \in S
  <2>1. 1 .. 0 = {} OBVIOUS
  <2>2. f[{}] = Log!EmptyFile BY <1>1 DEF FoldsWritten
  <2>3. IsLogFile(Log!EmptyFile) BY EmptyIsSeq DEF IsLogFile, Log!EmptyFile
  <2> QED BY <2>1, <2>2, <2>3
<1>3. ASSUME NEW m \in Nat, m \in S PROVE m + 1 \in S
  <2> SUFFICES ASSUME m + 1 <= n PROVE IsLogFile(f[1 .. m + 1]) OBVIOUS
  <2> DEFINE k == 1 .. m + 1
  <2>1. m <= n /\ m + 1 \in 1 .. n /\ IsLogFile(f[1 .. m]) BY <1>3
  <2>2. k \in SUBSET (1 .. n) /\ k # {} /\ k \subseteq 1 .. m + 1 /\ m + 1 \in k
    <3>1. m + 1 \in k /\ k \subseteq 1 .. m + 1 OBVIOUS
    <3>2. \A i \in 1 .. m + 1 : i \in 1 .. n OBVIOUS
    <3> HIDE DEF k
    <3> QED BY <3>1, <3>2, Zenon
  <2>3. k \ {m + 1} = 1 .. m OBVIOUS
  <2> HIDE DEF k
  <2>4. Max(k) = m + 1 BY <2>2, MaxIsLast
  <2>5. f[k] = Log!AddRecord(f[k \ {Max(k)}], es[Max(k)]) BY <1>1, <2>2 DEF FoldsWritten
  <2>6. f[k] = Log!AddRecord(f[1 .. m], es[m + 1]) BY <2>3, <2>4, <2>5
  <2>7. es[m + 1] \in Nat BY <2>1
  <2>8. IsLogFile(Log!AddRecord(f[1 .. m], es[m + 1])) BY <2>1, <2>7, AddRecordKeepsLog
  <2> QED BY <2>6, <2>8 DEF k
<1> HIDE DEF S
<1>4. n \in S BY <1>2, <1>3, NatSetInduction
<1> QED BY <1>1, <1>4 DEF S

(* The state of ReadRecords has its fields, and the records it returned are  *)
(* a sequence.                                                               *)
IsReading(s) ==
  /\ s = [p |-> s.p, scratch |-> s.scratch, out |-> s.out, corrupt |-> s.corrupt, done |-> s.done]
  /\ IsSeq(s.out)

(* Where the reader starts.                                                  *)
ReadingStart == [p |-> 0, scratch |-> Log!NoScratch, out |-> <<>>, corrupt |-> FALSE, done |-> FALSE]

(* One step of it.                                                           *)
ReadingStep(f, c, s) ==
  LET g == Log!ReadPhysicalRecord(f, c, s.p)
      whole == [of |-> g.of, len |-> g.len]
      t == [s EXCEPT !.p = g.next]
  IN  CASE g.type = "eof" -> [s EXCEPT !.done = TRUE]
        [] g.type = "bad" -> [t EXCEPT !.scratch = Log!NoScratch, !.corrupt = TRUE]
        [] g.type = "full" ->
             [t EXCEPT !.out = Append(@, whole), !.scratch = Log!NoScratch,
                       !.corrupt = @ \/ (s.scratch.in /\ s.scratch.len > 0)]
        [] g.type = "first" ->
             [t EXCEPT !.scratch = [in |-> TRUE, of |-> g.of, len |-> g.len],
                       !.corrupt = @ \/ (s.scratch.in /\ s.scratch.len > 0)]
        [] g.type \in {"middle", "last"} /\ ~s.scratch.in -> [t EXCEPT !.corrupt = TRUE]
        [] g.type = "middle" /\ s.scratch.in ->
             [t EXCEPT !.scratch = Log!Extended(s.scratch, g)]
        [] OTHER ->
             [t EXCEPT !.out = Append(@, [of  |-> Log!Extended(s.scratch, g).of,
                                          len |-> Log!Extended(s.scratch, g).len]),
                       !.scratch = Log!NoScratch]

(* ... unless it has come to the end of the file.                            *)
NextReading(f, c, s) == IF s.done THEN s ELSE ReadingStep(f, c, s)

(* g gives the state after each of the first m fragments.                    *)
Readings(g, f, c, m) ==
  g = [k \in 0 .. m |-> IF k = 0 THEN ReadingStart ELSE NextReading(f, c, g[k - 1])]

(* What ReadRecords returns is the state after the last fragment.            *)
LEMMA ReadRecordsReadings ==
  ASSUME NEW f, NEW c
  PROVE  Log!ReadRecords(f, c)
           = (CHOOSE g : Readings(g, f, c, Len(f.fragments) + 1))[Len(f.fragments) + 1]
BY DEF Log!ReadRecords, Readings, NextReading, ReadingStep, ReadingStart

(* There are such readings, as long as one likes.                            *)
LEMMA ReadingsExist ==
  ASSUME NEW f, NEW c, NEW m \in Nat
  PROVE  \E g : Readings(g, f, c, m)
<1> DEFINE S == {k \in Nat : \E g : Readings(g, f, c, k)}
<1>1. 0 \in S
  <2>1. Readings([n \in 0 .. 0 |-> ReadingStart], f, c, 0) BY DEF Readings
  <2> QED BY <2>1
<1>2. ASSUME NEW k \in Nat, k \in S PROVE k + 1 \in S
  <2>1. PICK g : Readings(g, f, c, k) BY <1>2
  <2> DEFINE last == NextReading(f, c, g[k])
             h == [n \in 0 .. k + 1 |-> IF n = k + 1 THEN last ELSE g[n]]
             e == [n \in 0 .. k + 1 |-> IF n = 0 THEN ReadingStart ELSE NextReading(f, c, h[n - 1])]
  <2>2. ASSUME NEW n \in 0 .. k + 1 PROVE h[n] = e[n]
    <3>1. CASE n = k + 1
      <4>1. n # 0 /\ n - 1 = k /\ k \in 0 .. k + 1 /\ k # k + 1 BY <3>1
      <4>2. h[k] = g[k] BY <4>1
      <4>3. e[n] = NextReading(f, c, h[k]) BY <3>1, <4>1
      <4>4. h[n] = last BY <3>1
      <4> HIDE DEF h, e
      <4> QED BY <4>2, <4>3, <4>4
    <3>2. CASE n # k + 1
      <4>1. n \in 0 .. k BY <3>2
      <4>2. h[n] = g[n] BY <3>2
      <4>3. g[n] = IF n = 0 THEN ReadingStart ELSE NextReading(f, c, g[n - 1])
        BY <2>1, <4>1 DEF Readings
      <4>4. e[n] = IF n = 0 THEN ReadingStart ELSE NextReading(f, c, h[n - 1])
        OBVIOUS
      <4>5. n # 0 => h[n - 1] = g[n - 1]
        <5> SUFFICES ASSUME n # 0 PROVE h[n - 1] = g[n - 1] OBVIOUS
        <5>1. n - 1 \in 0 .. k + 1 /\ n - 1 # k + 1 BY <4>1
        <5> QED BY <5>1
      <4> HIDE DEF h, e
      <4> QED BY <4>2, <4>3, <4>4, <4>5
    <3> QED BY <3>1, <3>2
  <2>3. h = e BY <2>2
  <2>4. Readings(h, f, c, k + 1) BY <2>3 DEF Readings
  <2> HIDE DEF h
  <2> QED BY <2>4
<1> HIDE DEF S
<1>3. m \in S BY <1>1, <1>2, NatSetInduction
<1> QED BY <1>3 DEF S

(* Changing the other fields.                                                *)
LEMMA ReadingSet ==
  ASSUME NEW s, IsReading(s), NEW x
  PROVE  /\ IsReading([s EXCEPT !.p = x]) /\ IsReading([s EXCEPT !.scratch = x])
         /\ IsReading([s EXCEPT !.corrupt = x]) /\ IsReading([s EXCEPT !.done = x])
         /\ IsReading([s EXCEPT !.out = Append(@, x)])
<1>1. /\ s = [p |-> s.p, scratch |-> s.scratch, out |-> s.out, corrupt |-> s.corrupt, done |-> s.done]
      /\ IsSeq(s.out) /\ IsSeq(Append(s.out, x))
  BY AppendIsSeq DEF IsReading
<1>2. [s EXCEPT !.p = x]
        = [p |-> x, scratch |-> s.scratch, out |-> s.out, corrupt |-> s.corrupt, done |-> s.done]
  BY <1>1
<1>3. [s EXCEPT !.scratch = x]
        = [p |-> s.p, scratch |-> x, out |-> s.out, corrupt |-> s.corrupt, done |-> s.done]
  BY <1>1
<1>4. [s EXCEPT !.corrupt = x]
        = [p |-> s.p, scratch |-> s.scratch, out |-> s.out, corrupt |-> x, done |-> s.done]
  BY <1>1
<1>5. [s EXCEPT !.done = x]
        = [p |-> s.p, scratch |-> s.scratch, out |-> s.out, corrupt |-> s.corrupt, done |-> x]
  BY <1>1
<1> DEFINE a == Append(s.out, x)
<1>6. [s EXCEPT !.out = a]
        = [p |-> s.p, scratch |-> s.scratch, out |-> a, corrupt |-> s.corrupt, done |-> s.done]
  <2> HIDE DEF a
  <2> QED BY <1>1
<1>7. IsSeq(a) BY <1>1
<1>8. IsReading([s EXCEPT !.out = a])
  <2> HIDE DEF a
  <2> QED BY <1>6, <1>7 DEF IsReading
<1>9. /\ IsReading([s EXCEPT !.p = x]) /\ IsReading([s EXCEPT !.scratch = x])
      /\ IsReading([s EXCEPT !.corrupt = x]) /\ IsReading([s EXCEPT !.done = x])
  BY <1>1, <1>2, <1>3, <1>4, <1>5 DEF IsReading
<1> QED BY <1>8, <1>9

(* So one more fragment leaves the reader in a state of its kind.            *)
LEMMA ReadingKept ==
  ASSUME NEW f, NEW c, NEW s, IsReading(s) PROVE IsReading(NextReading(f, c, s))
<1> DEFINE g == Log!ReadPhysicalRecord(f, c, s.p)
           t == [s EXCEPT !.p = g.next]
           lost == s.scratch.in /\ s.scratch.len > 0
           whole == [of |-> g.of, len |-> g.len]
           first == [in |-> TRUE, of |-> g.of, len |-> g.len]
           more == Log!Extended(s.scratch, g)
           none == Log!NoScratch
           joined == [of |-> more.of, len |-> more.len]
           eof == [s EXCEPT !.done = TRUE]
           bad == [t EXCEPT !.scratch = none, !.corrupt = TRUE]
           full == [t EXCEPT !.out = Append(@, whole), !.scratch = none, !.corrupt = @ \/ lost]
           begin == [t EXCEPT !.scratch = first, !.corrupt = @ \/ lost]
           stray == [t EXCEPT !.corrupt = TRUE]
           middle == [t EXCEPT !.scratch = more]
           end == [t EXCEPT !.out = Append(@, joined), !.scratch = none]
<1>1. ReadingStep(f, c, s) =
        CASE g.type = "eof" -> eof
          [] g.type = "bad" -> bad
          [] g.type = "full" -> full
          [] g.type = "first" -> begin
          [] g.type \in {"middle", "last"} /\ ~s.scratch.in -> stray
          [] g.type = "middle" /\ s.scratch.in -> middle
          [] OTHER -> end
  BY DEF ReadingStep
<1>2. IsReading(t) BY ReadingSet
<1> HIDE DEF t, lost, whole, first, more, none, joined
<1>3. IsReading(eof) /\ IsReading(stray) /\ IsReading(middle) BY <1>2, ReadingSet
<1>4. IsReading(bad) /\ IsReading(begin)
  <2>1. \A x, y : IsReading([[t EXCEPT !.scratch = x] EXCEPT !.corrupt = y]) BY <1>2, ReadingSet
  <2>2. bad = [[t EXCEPT !.scratch = none] EXCEPT !.corrupt = TRUE] OBVIOUS
  <2>3. begin = [[t EXCEPT !.scratch = first] EXCEPT !.corrupt = @ \/ lost] OBVIOUS
  <2> QED BY <2>1, <2>2, <2>3
<1>5. IsReading(end)
  <2>1. IsReading([[t EXCEPT !.out = Append(@, joined)] EXCEPT !.scratch = none]) BY <1>2, ReadingSet
  <2> QED BY <2>1
<1>6. IsReading(full)
  <2>1. IsReading([[t EXCEPT !.out = Append(@, whole)] EXCEPT !.scratch = none]) BY <1>2, ReadingSet
  <2>2. IsReading([[[t EXCEPT !.out = Append(@, whole)] EXCEPT !.scratch = none] EXCEPT !.corrupt = @ \/ lost])
    BY <2>1, ReadingSet
  <2> QED BY <2>2
<1> HIDE DEF eof, bad, full, begin, stray, middle, end, g
<1>7. IsReading(ReadingStep(f, c, s)) BY <1>1, <1>3, <1>4, <1>5, <1>6
<1> QED BY <1>7 DEF NextReading

(* Every reading of a log file gives a sequence of records.                  *)
LEMMA ReadIsSeq ==
  ASSUME NEW f, IsLogFile(f), NEW c PROVE IsSeq(Log!ReadRecords(f, c).out)
<1> DEFINE m == Len(f.fragments) + 1
           g == CHOOSE h : Readings(h, f, c, m)
<1>1. m \in Nat
  <2>1. IsSeq(f.fragments) BY DEF IsLogFile
  <2>2. Len(f.fragments) \in Nat BY <2>1, AppendIsSeq
  <2> QED BY <2>2
<1>2. Log!ReadRecords(f, c) = g[m] BY ReadRecordsReadings
<1> HIDE DEF m
<1>3. Readings(g, f, c, m) BY <1>1, ReadingsExist
<1> HIDE DEF g
<1>4. \A k \in 0 .. m : g[k] = IF k = 0 THEN ReadingStart ELSE NextReading(f, c, g[k - 1])
  BY <1>3 DEF Readings
<1> DEFINE S == {k \in Nat : k <= m => IsReading(g[k])}
<1>5. 0 \in S
  <2>1. g[0] = ReadingStart BY <1>1, <1>4
  <2>2. IsReading(ReadingStart) BY EmptyIsSeq DEF IsReading, ReadingStart
  <2> QED BY <2>1, <2>2
<1>6. ASSUME NEW k \in Nat, k \in S PROVE k + 1 \in S
  <2> SUFFICES ASSUME k + 1 <= m PROVE IsReading(g[k + 1]) OBVIOUS
  <2>1. k + 1 \in 0 .. m /\ k + 1 # 0 /\ k + 1 - 1 = k /\ k <= m BY <1>1
  <2>2. g[k + 1] = NextReading(f, c, g[k]) BY <1>4, <2>1
  <2>3. IsReading(g[k]) BY <1>6, <2>1
  <2> QED BY <2>2, <2>3, ReadingKept
<1> HIDE DEF S
<1>7. m \in S BY <1>1, <1>5, <1>6, NatSetInduction
<1>8. IsReading(g[m]) BY <1>1, <1>7 DEF S
<1> QED BY <1>2, <1>8 DEF IsReading

(* The batches taken after one more record is read.                          *)
Take(recs, sizes, r, t) ==
  IF r.of \in DOMAIN recs /\ r.len = sizes[r.of] THEN Append(t, recs[r.of]) ELSE t

(* g gives the batches taken after each of the first m records.              *)
Takes(g, recs, sizes, read, m) ==
  g = [i \in 0 .. m |-> IF i = 0 THEN <<>> ELSE Take(recs, sizes, read[i], g[i - 1])]

(* There are such batches, as many as one likes.                             *)
LEMMA TakesExist ==
  ASSUME NEW recs, NEW sizes, NEW read, NEW m \in Nat
  PROVE  \E g : Takes(g, recs, sizes, read, m)
<1> DEFINE S == {k \in Nat : \E g : Takes(g, recs, sizes, read, k)}
<1>1. 0 \in S
  <2>1. Takes([n \in 0 .. 0 |-> <<>>], recs, sizes, read, 0) BY DEF Takes
  <2> QED BY <2>1
<1>2. ASSUME NEW k \in Nat, k \in S PROVE k + 1 \in S
  <2>1. PICK g : Takes(g, recs, sizes, read, k) BY <1>2
  <2> DEFINE last == Take(recs, sizes, read[k + 1], g[k])
             h == [n \in 0 .. k + 1 |-> IF n = k + 1 THEN last ELSE g[n]]
             e == [n \in 0 .. k + 1 |-> IF n = 0 THEN <<>> ELSE Take(recs, sizes, read[n], h[n - 1])]
  <2>2. ASSUME NEW n \in 0 .. k + 1 PROVE h[n] = e[n]
    <3>1. CASE n = k + 1
      <4>1. n # 0 /\ n - 1 = k /\ k \in 0 .. k + 1 /\ k # k + 1 BY <3>1
      <4>2. h[k] = g[k] BY <4>1
      <4>3. e[n] = Take(recs, sizes, read[k + 1], h[k]) BY <3>1, <4>1
      <4>4. h[n] = last BY <3>1
      <4> HIDE DEF h, e
      <4> QED BY <4>2, <4>3, <4>4
    <3>2. CASE n # k + 1
      <4>1. n \in 0 .. k BY <3>2
      <4>2. h[n] = g[n] BY <3>2
      <4>3. g[n] = IF n = 0 THEN <<>> ELSE Take(recs, sizes, read[n], g[n - 1])
        BY <2>1, <4>1 DEF Takes
      <4>4. e[n] = IF n = 0 THEN <<>> ELSE Take(recs, sizes, read[n], h[n - 1])
        OBVIOUS
      <4>5. n # 0 => h[n - 1] = g[n - 1]
        <5> SUFFICES ASSUME n # 0 PROVE h[n - 1] = g[n - 1] OBVIOUS
        <5>1. n - 1 \in 0 .. k + 1 /\ n - 1 # k + 1 BY <4>1
        <5> QED BY <5>1
      <4> HIDE DEF h, e
      <4> QED BY <4>2, <4>3, <4>4, <4>5
    <3> QED BY <3>1, <3>2
  <2>3. h = e BY <2>2
  <2>4. Takes(h, recs, sizes, read, k + 1) BY <2>3 DEF Takes
  <2> HIDE DEF h
  <2> QED BY <2>4
<1> HIDE DEF S
<1>3. m \in S BY <1>1, <1>2, NatSetInduction
<1> QED BY <1>3 DEF S

(* What is read of a log is what is taken after its last record.             *)
LEMMA RecordsReadTakes ==
  ASSUME NEW recs, NEW c
  PROVE  LET read == Log!ReadRecords(Log!Written(RecordSizes(recs)), c).out
         IN  RecordsRead(recs, c)
               = (CHOOSE g : Takes(g, recs, RecordSizes(recs), read, Len(read)))[Len(read)]
BY DEF RecordsRead, Takes, Take

(* What is read back of a log: batches that were written to it.              *)
LEMMA ReadBack ==
  ASSUME NEW recs, IsSeq(recs), \A i \in 1 .. Len(recs) : Contents(recs[i]), NEW c
  PROVE  /\ IsSeq(RecordsRead(recs, c))
         /\ \A i \in 1 .. Len(RecordsRead(recs, c)) : Contents(RecordsRead(recs, c)[i])
<1> DEFINE sizes == RecordSizes(recs)
           read == Log!ReadRecords(Log!Written(sizes), c).out
           m == Len(read)
           g == CHOOSE h : Takes(h, recs, sizes, read, m)
           n == Len(recs)
<1>1. n \in Nat /\ DOMAIN recs = 1 .. n BY AppendIsSeq
<1>2. DOMAIN sizes = 1 .. n /\ \A i \in 1 .. n : sizes[i] \in Nat
  <2>1. BatchHeader \in Nat /\ OpBytes \in Nat BY LevelDBAssumption
  <2>2. \A i \in 1 .. n : Cardinality(recs[i]) \in Nat BY FS_CardinalityType DEF Contents
  <2>3. \A x \in Nat : BatchHeader + OpBytes * x \in Nat BY <2>1
  <2> HIDE DEF n
  <2>4. \A i \in 1 .. n : sizes[i] = BatchHeader + OpBytes * Cardinality(recs[i])
    BY <1>1 DEF RecordSizes
  <2>5. DOMAIN sizes = 1 .. n BY <1>1 DEF RecordSizes
  <2> HIDE DEF sizes
  <2> QED BY <2>2, <2>3, <2>4, <2>5
<1> HIDE DEF sizes, n
<1>3. IsLogFile(Log!Written(sizes)) BY <1>1, <1>2, WrittenIsLog
<1>4. IsSeq(read) BY <1>3, ReadIsSeq
<1> HIDE DEF read
<1>5. m \in Nat BY <1>4, AppendIsSeq
<1> HIDE DEF m
<1>6. Takes(g, recs, sizes, read, m) BY <1>5, TakesExist
<1>7. RecordsRead(recs, c) = g[m] BY RecordsReadTakes DEF sizes, read, m
<1> HIDE DEF g
<1>8. \A i \in 0 .. m : g[i] = IF i = 0 THEN <<>> ELSE Take(recs, sizes, read[i], g[i - 1])
  BY <1>6 DEF Takes
<1> DEFINE Good(t) == IsSeq(t) /\ \A i \in 1 .. Len(t) : Contents(t[i])
           S == {k \in Nat : k <= m => Good(g[k])}
<1>9. 0 \in S
  <2>1. g[0] = <<>> BY <1>5, <1>8
  <2>2. Good(<<>>) BY EmptyIsSeq
  <2> HIDE DEF Good
  <2> QED BY <2>1, <2>2
<1>10. ASSUME NEW k \in Nat, k \in S PROVE k + 1 \in S
  <2> SUFFICES ASSUME k + 1 <= m PROVE Good(g[k + 1]) OBVIOUS
  <2>1. k + 1 \in 0 .. m /\ k + 1 # 0 /\ k + 1 - 1 = k /\ k <= m BY <1>5
  <2>2. g[k + 1] = Take(recs, sizes, read[k + 1], g[k]) BY <1>8, <2>1
  <2>3. Good(g[k]) BY <1>10, <2>1
  <2>4. ASSUME NEW t, Good(t), NEW r PROVE Good(Take(recs, sizes, r, t))
    <3>1. CASE r.of \in DOMAIN recs
      <4> DEFINE x == recs[r.of]
                 a == Append(t, x)
      <4>1. Contents(x) BY <1>1, <3>1 DEF n
      <4>2. /\ IsSeq(a) /\ Len(t) \in Nat /\ Len(a) = Len(t) + 1
            /\ \A i \in 1 .. Len(t) + 1 : a[i] = IF i = Len(t) + 1 THEN x ELSE t[i]
        BY <2>4, AppendIsSeq
      <4> HIDE DEF x, a
      <4>3. ASSUME NEW i \in 1 .. Len(a) PROVE Contents(a[i])
        <5>1. CASE i = Len(t) + 1 BY <4>1, <4>2, <5>1
        <5>2. CASE i # Len(t) + 1
          <6>1. i \in 1 .. Len(t) BY <4>2, <5>2
          <6>2. a[i] = t[i] BY <4>2, <5>2, <6>1
          <6> QED BY <2>4, <6>1, <6>2
        <5> QED BY <5>1, <5>2
      <4>4. Good(a) BY <4>2, <4>3
      <4>5. Take(recs, sizes, r, t) \in {a, t} BY DEF Take, a, x
      <4> HIDE DEF Good
      <4> QED BY <2>4, <4>4, <4>5
    <3>2. CASE r.of \notin DOMAIN recs
      <4>1. Take(recs, sizes, r, t) = t BY <3>2 DEF Take
      <4> HIDE DEF Good
      <4> QED BY <2>4, <4>1
    <3> QED BY <3>1, <3>2
  <2> HIDE DEF Good
  <2> QED BY <2>2, <2>3, <2>4
<1> HIDE DEF Good, S
<1>11. m \in S BY <1>5, <1>9, <1>10, NatSetInduction
<1>12. Good(g[m]) BY <1>5, <1>11 DEF S
<1>13. Good(RecordsRead(recs, c)) BY <1>7, <1>12
<1> QED BY <1>13 DEF Good

(***************************************************************************)
(* Recovery: the order of the logs, and what their replay leaves.           *)
(***************************************************************************)

(* How many of S are below n.                                                *)
Rank(S, n) == Cardinality({m \in S : m < n})

(* The ranks of finitely many numbers are theirs alone, and all that are     *)
(* below their count are taken.                                              *)
LEMMA Ranks ==
  ASSUME NEW S \in SUBSET Nat, IsFiniteSet(S)
  PROVE  /\ Cardinality(S) \in Nat
         /\ \A n \in S : Rank(S, n) \in 0 .. Cardinality(S) - 1
         /\ \A n, k \in S : Rank(S, n) = Rank(S, k) => n = k
         /\ \A i \in 0 .. Cardinality(S) - 1 : \E n \in S : Rank(S, n) = i
<1> DEFINE N == Cardinality(S)
           B(n) == {m \in S : m < n}
<1>1. N \in Nat BY FS_CardinalityType
<1>2. ASSUME NEW T \in SUBSET S, NEW x \in S, x \notin T
      PROVE  IsFiniteSet(T) /\ Cardinality(T) \in Nat /\ Cardinality(T) < N
  <2>1. IsFiniteSet(T) /\ Cardinality(T) <= N /\ (N = Cardinality(T) => S = T) BY FS_Subset
  <2>2. Cardinality(T) \in Nat BY <2>1, FS_CardinalityType
  <2>3. S # T BY <1>2
  <2> HIDE DEF N
  <2> QED BY <1>1, <2>1, <2>2, <2>3
<1>3. \A n \in S : Rank(S, n) \in 0 .. N - 1
  <2> SUFFICES ASSUME NEW n \in S PROVE Rank(S, n) \in 0 .. N - 1 OBVIOUS
  <2>1. B(n) \in SUBSET S /\ n \notin B(n) OBVIOUS
  <2> DEFINE T == B(n)
  <2>2. T \in SUBSET S /\ n \notin T BY <2>1
  <2>3. Rank(S, n) = Cardinality(T) BY DEF Rank
  <2> HIDE DEF T, N
  <2> QED BY <1>1, <1>2, <2>2, <2>3
<1>4. ASSUME NEW n \in S, NEW k \in S, n < k PROVE Rank(S, n) < Rank(S, k)
  <2> DEFINE T == B(n)
             U == B(k)
  <2>0. \A m \in S : m \in Nat OBVIOUS
  <2>1. T \in SUBSET U /\ n \in U /\ n \notin T /\ U \in SUBSET S
    <3>1. \A m \in S : m < n => m < k BY <1>4, <2>0
    <3>2. ~(n < n) BY <2>0
    <3>3. \A m \in T : m \in U BY <3>1
    <3>4. n \in U /\ n \notin T BY <1>4, <3>2
    <3>5. \A m \in U : m \in S OBVIOUS
    <3> HIDE DEF T, U
    <3> QED BY <3>3, <3>4, <3>5
  <2>2. Rank(S, n) = Cardinality(T) /\ Rank(S, k) = Cardinality(U) BY DEF Rank
  <2> HIDE DEF T, U
  <2>3. IsFiniteSet(U) BY <2>1, FS_Subset
  <2>4. IsFiniteSet(T) /\ Cardinality(T) <= Cardinality(U) /\ (Cardinality(U) = Cardinality(T) => U = T)
    BY <2>1, <2>3, FS_Subset
  <2>5. Cardinality(T) \in Nat /\ Cardinality(U) \in Nat /\ U # T
    BY <2>1, <2>3, <2>4, FS_CardinalityType
  <2> QED BY <2>2, <2>4, <2>5
<1>5. \A n, k \in S : Rank(S, n) = Rank(S, k) => n = k
  <2> SUFFICES ASSUME NEW n \in S, NEW k \in S, Rank(S, n) = Rank(S, k) PROVE n = k OBVIOUS
  <2>1. ~(n < k) /\ ~(k < n) BY <1>3, <1>4
  <2> QED BY <2>1
<1> DEFINE I == 0 .. N - 1
           rank == [n \in S |-> Rank(S, n)]
<1>6. IsFiniteSet(I) /\ Cardinality(I) = N
  <2>1. 0 \in Int /\ N - 1 \in Int BY <1>1
  <2>2. IsFiniteSet(I) /\ Cardinality(I) = IF 0 > N - 1 THEN 0 ELSE N - 1 - 0 + 1 BY <2>1, FS_Interval
  <2> HIDE DEF N, I
  <2> QED BY <1>1, <2>2
<1>7. rank \in Injection(S, I)
  <2>1. rank \in [S -> I] BY <1>3
  <2>2. \A a, b \in S : rank[a] = rank[b] => a = b BY <1>5
  <2> HIDE DEF rank, I
  <2> QED BY <2>1, <2>2 DEF Injection, IsInjective
<1>8. rank \in Surjection(S, I)
  <2> HIDE DEF rank, I
  <2> QED BY <1>6, <1>7, FS_Injection
<1>9. \A i \in I : \E n \in S : rank[n] = i
  <2> HIDE DEF rank, I
  <2> QED BY <1>8 DEF Surjection
<1> QED BY <1>1, <1>3, <1>5, <1>9

(* The fields of a log, its records finitely many entries each.              *)
LogOK(l) ==
  /\ l = [recs |-> l.recs, synced |-> l.synced]
  /\ IsSeq(l.recs) /\ l.synced \in 0 .. Len(l.recs)
  /\ \A i \in 1 .. Len(l.recs) : Contents(l.recs[i])

(* All the logs are, and have a number.                                      *)
LogsTyped == \A n \in DOMAIN logs : n \in Nat /\ LogOK(logs[n])

(* What a log holds.                                                         *)
LEMMA LogContents ==
  ASSUME NEW l, LogOK(l) PROVE Contents(EntriesOf(l.recs))
<1> DEFINE r == l.recs
           D == 1 .. Len(r)
           R == {r[i] : i \in D}
<1>1. IsSeq(r) /\ \A i \in D : Contents(r[i]) BY DEF LogOK
<1>2. Len(r) \in Nat /\ DOMAIN r = D BY <1>1, AppendIsSeq
<1>3. Range(r) = R BY <1>2 DEF Range
<1>4. IsFiniteSet(D) BY <1>2, FS_Interval
<1>5. IsFiniteSet(R)
  <2> HIDE DEF D, r
  <2> QED BY <1>4, FiniteImage
<1>6. \A T \in R : IsFiniteSet(T) /\ T \subseteq Entry BY <1>1 DEF Contents
<1> HIDE DEF R, D, r
<1>7. IsFiniteSet(UNION R) /\ UNION R \subseteq Entry BY <1>5, <1>6, FS_UNION
<1> QED BY <1>3, <1>7 DEF EntriesOf, Contents, r

(* The logs Recover replays are the old ones, all of them.                   *)
LEMMA ReplaysAll ==
  ASSUME LogsTyped, IsFiniteSet(DOMAIN logs)
  PROVE  LET old == {n \in DOMAIN logs : n >= manifest.base.log}
             N == Cardinality(old)
         IN  /\ N \in Nat /\ DOMAIN LogsToRecover = 1 .. N
             /\ \A i \in 1 .. N : LogsToRecover[i] \in old
             /\ \A n \in old : \E i \in 1 .. N : LogsToRecover[i] = n
<1> DEFINE old == {n \in DOMAIN logs : n >= manifest.base.log}
           N == Cardinality(old)
           es == LogsToRecover
<1>1. old \in SUBSET Nat /\ IsFiniteSet(old) BY FS_Subset DEF LogsTyped
<1>2. es = [i \in 1 .. N |-> CHOOSE n \in old : Rank(old, n) = i - 1]
  BY DEF LogsToRecover, Rank
<1> HIDE DEF old, es, N
<1>3. /\ N \in Nat
      /\ \A n \in old : Rank(old, n) \in 0 .. N - 1
      /\ \A n, k \in old : Rank(old, n) = Rank(old, k) => n = k
      /\ \A i \in 0 .. N - 1 : \E n \in old : Rank(old, n) = i
  BY <1>1, Ranks DEF N
<1>4. ASSUME NEW i \in 1 .. N PROVE es[i] \in old /\ Rank(old, es[i]) = i - 1
  <2>1. i - 1 \in 0 .. N - 1 BY <1>3
  <2>2. \E n \in old : Rank(old, n) = i - 1 BY <1>3, <2>1
  <2>3. es[i] = CHOOSE n \in old : Rank(old, n) = i - 1 BY <1>2
  <2> QED BY <2>2, <2>3
<1>5. ASSUME NEW n \in old PROVE \E i \in 1 .. N : es[i] = n
  <2> DEFINE i == Rank(old, n) + 1
  <2>1. Rank(old, n) \in 0 .. N - 1 BY <1>3
  <2>2. i \in 1 .. N /\ i - 1 = Rank(old, n) BY <1>3, <2>1
  <2>3. es[i] = n BY <1>3, <1>4, <2>2
  <2> QED BY <2>2, <2>3
<1>6. DOMAIN es = 1 .. N BY <1>2
<1> QED BY <1>3, <1>4, <1>5, <1>6 DEF old, es, N

(* Every table of ts holds finitely many entries, at least one.              *)
TablesOK(ts) == \A n \in DOMAIN ts : Contents(ts[n]) /\ ts[n] # {}

(* A file r of a replay is of level 0, below the counter and has the bounds  *)
(* of its table.                                                             *)
AddedOK(a, next, ts) ==
  a[1] = 0 /\ a[2].number < next /\ FileOK(a[2], ts)

(* What Recover makes of the logs: the counter, the sequence number, the     *)
(* tables, of which those the manifest may name are the old ones, and the    *)
(* files added.                                                              *)
RecoverySound(r) ==
  /\ IsRecovery(r)
  /\ r.next \in Nat /\ manifest.base.next < r.next /\ r.seq \in 0 .. MaxSeq
  /\ TablesOK(r.tables)
  /\ \A n \in Nat : n <= manifest.base.next => TableIn(r.tables, n) = TableIn(tables, n)
  /\ \A a \in r.add : AddedOK(a, r.next, r.tables)

(* The tables when table n of entries S is built.                            *)
WithTable(ts, n, S) == [m \in DOMAIN ts \cup {n} |-> IF m = n THEN S ELSE ts[m]]

(* ... hold what they held, and S.                                           *)
LEMMA TableBuilt ==
  ASSUME NEW ts, NEW n, NEW S
  PROVE  TableIn(WithTable(ts, n, S), n) = S
BY DEF WithTable, TableIn

(* ... the other tables are as they were,                                    *)
LEMMA TablesStay ==
  ASSUME NEW ts, NEW n, NEW S, NEW m, m # n
  PROVE  TableIn(WithTable(ts, n, S), m) = TableIn(ts, m)
BY DEF WithTable, TableIn

(* ... and are filled if they were and S is.                                 *)
LEMMA TablesFilled ==
  ASSUME NEW ts, NEW n, NEW S, TablesOK(ts), Contents(S), S # {}
  PROVE  TablesOK(WithTable(ts, n, S))
BY DEF WithTable, TablesOK

(* The builder's file has the bounds of its table.                           *)
LEMMA BuiltFile ==
  ASSUME NEW ts, NEW n \in Nat, NEW S, Contents(S), S # {}
  PROVE  /\ FileOK(FileMetaData(n, S), WithTable(ts, n, S))
         /\ Bounded(FileMetaData(n, S)) /\ FileMetaData(n, S).number = n
<1> DEFINE f == FileMetaData(n, S)
<1>1. /\ f.number = n /\ f.smallest \in S /\ f.largest \in S
      /\ \A a \in S : ~Before(a, f.smallest) /\ ~Before(f.largest, a)
  BY BuiltBounds DEF Contents
<1> HIDE DEF f
<1>2. f.smallest \in Entry /\ f.largest \in Entry /\ ~Before(f.largest, f.smallest)
  BY <1>1 DEF Contents
<1>3. TableIn(WithTable(ts, n, S), n) = S BY TableBuilt
<1>4. Bounded(f) BY <1>2 DEF Bounded
<1>5. FileOK(f, WithTable(ts, n, S)) BY <1>1, <1>3, <1>4 DEF FileOK
<1> QED BY <1>1, <1>4, <1>5 DEF f

(* A file of another number keeps its table.                                 *)
LEMMA OtherTable ==
  ASSUME NEW ts, NEW us, NEW f, TableIn(us, f.number) = TableIn(ts, f.number), FileOK(f, ts)
  PROVE  FileOK(f, us)
BY DEF FileOK

(* MarkFileNumberUsed passes the number and never goes back.                 *)
LEMMA Marked ==
  ASSUME NEW x \in Nat, NEW n \in Nat
  PROVE  /\ MarkFileNumberUsed(x, n) \in Nat /\ n < MarkFileNumberUsed(x, n)
         /\ x <= MarkFileNumberUsed(x, n)
BY DEF MarkFileNumberUsed

(* The replay of a log is sound, and the counter passes the log's number.    *)
LEMMA ReplaySound ==
  ASSUME NEW r, RecoverySound(r), NEW n \in Nat, LogOK(logs[n]), manifest.base.next \in Nat
  PROVE  /\ RecoverySound(RecoverLogFile(r, n))
         /\ n < RecoverLogFile(r, n).next /\ r.next <= RecoverLogFile(r, n).next
<1> DEFINE S == EntriesOf(logs[n].recs)
           q == RecoverLogFile(r, n)
           f == FileMetaData(r.next, S)
           a == <<0, f>>
           base == manifest.base.next
<1> SUFFICES RecoverySound(q) /\ n < q.next /\ r.next <= q.next OBVIOUS
<1>0. /\ IsRecovery(r) /\ r.next \in Nat /\ base < r.next /\ r.seq \in 0 .. MaxSeq
      /\ TablesOK(r.tables)
      /\ \A m \in Nat : m <= base => TableIn(r.tables, m) = TableIn(tables, m)
      /\ \A b \in r.add : AddedOK(b, r.next, r.tables)
  BY DEF RecoverySound
<1>c. Contents(S) BY LogContents
<1>1. CASE S = {}
  <2>1. q = [r EXCEPT !.next = MarkFileNumberUsed(@, n)] BY <1>1 DEF RecoverLogFile
  <2>2. r = [next |-> r.next, tables |-> r.tables, add |-> r.add, seq |-> r.seq]
    BY <1>0 DEF IsRecovery
  <2> DEFINE x == MarkFileNumberUsed(r.next, n)
  <2>3. q = [next |-> x, tables |-> r.tables, add |-> r.add, seq |-> r.seq] BY <2>1, <2>2
  <2>4. x \in Nat /\ n < x /\ r.next <= x BY <1>0, Marked
  <2> HIDE DEF q, x
  <2>5. /\ q.add = r.add /\ q.tables = r.tables /\ q.next = x /\ q.seq = r.seq BY <2>3
  <2>6. IsRecovery(q) BY <2>3 DEF IsRecovery
  <2>7. \A b \in q.add : AddedOK(b, q.next, q.tables)
    <3> SUFFICES ASSUME NEW b \in r.add PROVE AddedOK(b, x, r.tables) BY <2>5
    <3>1. AddedOK(b, r.next, r.tables) BY <1>0
    <3>2. b[2].number \in Nat BY <3>1 DEF AddedOK, FileOK
    <3> QED BY <1>0, <2>4, <3>1, <3>2 DEF AddedOK
  <2>8. base < q.next BY <1>0, <2>4, <2>5
  <2> QED BY <1>0, <2>4, <2>5, <2>6, <2>7, <2>8 DEF RecoverySound
<1>2. CASE S # {}
  <2> DEFINE x == MarkFileNumberUsed(r.next + 1, n)
             us == WithTable(r.tables, r.next, S)
             Q == {r.seq} \cup {e.seq : e \in S}
  <2>1. q = [next |-> x, tables |-> us, add |-> r.add \cup {a}, seq |-> Max(Q)]
    BY <1>2 DEF RecoverLogFile, WithTable
  <2>2. FileOK(f, us) /\ f.number = r.next BY <1>0, <1>2, <1>c, BuiltFile
  <2>3. x \in Nat /\ n < x /\ r.next + 1 <= x BY <1>0, Marked
  <2>4. /\ \A m : m # r.next => TableIn(us, m) = TableIn(r.tables, m)
        /\ TablesOK(us)
    <3>1. \A m : m # r.next => TableIn(us, m) = TableIn(r.tables, m) BY TablesStay
    <3>2. TablesOK(us) BY <1>0, <1>2, <1>c, TablesFilled
    <3> QED BY <3>1, <3>2
  <2>5. Max(Q) \in 0 .. MaxSeq
    <3> DEFINE g == [e \in S |-> e.seq]
               P == {g[e] : e \in S}
    <3>1. P = {e.seq : e \in S} OBVIOUS
    <3>2. IsFiniteSet(P)
      <4> HIDE DEF g, S
      <4> QED BY <1>c, FiniteImage DEF Contents
    <3>3. Q = P \cup {r.seq} BY <3>1
    <3>4. MaxSeq \in Nat BY LevelDBAssumption
    <3>5. \A e \in S : e.seq \in 1 .. MaxSeq BY <1>c, EntryFields DEF Contents
    <3>6. Q \subseteq 0 .. MaxSeq BY <1>0, <3>4, <3>5
    <3> HIDE DEF P, Q, g, S
    <3>7. IsFiniteSet(Q) BY <3>2, <3>3, FS_AddElement
    <3>8. Q # {} /\ Q \in SUBSET Int BY <3>3, <3>4, <3>6
    <3>9. Max(Q) \in Q BY <3>7, <3>8, MinMaxOf
    <3> QED BY <3>6, <3>9
  <2>6. a[1] = 0 /\ a[2] = f OBVIOUS
  <2> HIDE DEF q, x, us, Q, S, f, a, base
  <2>7. q.next = x /\ q.tables = us /\ q.add = r.add \cup {a} /\ q.seq = Max(Q) BY <2>1
  <2>8. IsRecovery(q) BY <2>1 DEF IsRecovery
  <2>9. ASSUME NEW b \in q.add PROVE AddedOK(b, q.next, q.tables)
    <3>1. CASE b = a BY <1>0, <2>2, <2>3, <2>6, <2>7, <3>1 DEF AddedOK
    <3>2. CASE b \in r.add
      <4>1. AddedOK(b, r.next, r.tables) BY <1>0, <3>2
      <4>2. b[2].number \in Nat /\ b[2].number < r.next BY <4>1 DEF AddedOK, FileOK
      <4>3. b[2].number # r.next /\ b[2].number < x BY <1>0, <2>3, <4>2
      <4>4. FileOK(b[2], us) BY <2>4, <4>1, <4>3, OtherTable DEF AddedOK
      <4> QED BY <2>7, <4>1, <4>3, <4>4 DEF AddedOK
    <3> QED BY <2>7, <3>1, <3>2
  <2>10. ASSUME NEW m \in Nat, m <= base PROVE TableIn(q.tables, m) = TableIn(tables, m)
    <3>1. m # r.next BY <1>0, <2>10 DEF base
    <3> QED BY <1>0, <2>4, <2>7, <2>10, <3>1
  <2>11. base < q.next /\ q.next \in Nat /\ r.next <= q.next /\ n < q.next
    BY <1>0, <2>3, <2>7 DEF base
  <2> QED BY <2>4, <2>5, <2>7, <2>8, <2>9, <2>10, <2>11 DEF RecoverySound, base
<1> QED BY <1>1, <1>2

(* es names logs.                                                            *)
LogsNamed(es, n) == \A i \in 1 .. n : es[i] \in Nat /\ LogOK(logs[es[i]])

(* A replay of any number of logs is sound and passes all their numbers.     *)
LEMMA ReplayFoldSound ==
  ASSUME NEW f, NEW st, NEW es, NEW n \in Nat, FoldsRecovery(f, st, es, n), RecoverySound(st),
         LogsNamed(es, n), manifest.base.next \in Nat
  PROVE  RecoverySound(f[1 .. n]) /\ \A i \in 1 .. n : es[i] < f[1 .. n].next
<1> DEFINE Good(m) == RecoverySound(f[1 .. m]) /\ \A i \in 1 .. m : es[i] < f[1 .. m].next
           S == {m \in Nat : m <= n => Good(m)}
<1>1. 0 \in S
  <2>1. 1 .. 0 = {} OBVIOUS
  <2>2. RecoverySound(f[{}]) BY RecoveryFoldEmpty
  <2> QED BY <2>1, <2>2
<1>2. ASSUME NEW m \in Nat, m \in S PROVE m + 1 \in S
  <2> SUFFICES ASSUME m + 1 <= n PROVE Good(m + 1) OBVIOUS
  <2> DEFINE k == m + 1
             s == 1 .. k
             r == f[1 .. m]
  <2>1. m <= n BY <1>2
  <2>2. Good(m) BY <1>2, <2>1
  <2>3. k \in 1 .. n /\ s \in SUBSET (1 .. k) /\ k \in s /\ s \ {k} = 1 .. m OBVIOUS
  <2>4. es[k] \in Nat /\ LogOK(logs[es[k]]) BY <2>3 DEF LogsNamed
  <2>5. \A i \in 1 .. m : i \in 1 .. n /\ es[i] \in Nat BY <2>1 DEF LogsNamed
  <2>i. \A i \in 1 .. k : i \in 1 .. m \/ i = k OBVIOUS
  <2>6. RecoverySound(r) /\ \A i \in 1 .. m : es[i] < r.next BY <2>2
  <2> HIDE DEF k, s, r, S
  <2>7. f[s] = RecoverLogFile(r, es[k])
    <3>1. f[s] = RecoverLogFile(f[s \ {k}], es[k]) BY <2>3, RecoveryFoldStep
    <3> QED BY <2>3, <3>1, Zenon DEF r
  <2>8. RecoverySound(f[s]) /\ es[k] < f[s].next /\ r.next <= f[s].next
    BY <2>4, <2>6, <2>7, ReplaySound
  <2>9. r.next \in Nat /\ f[s].next \in Nat BY <2>6, <2>8 DEF RecoverySound
  <2>10. \A i \in 1 .. k : es[i] < f[s].next BY <2>5, <2>i, <2>6, <2>8, <2>9
  <2> QED BY <2>8, <2>10 DEF k, s
<1>3. n \in S
  <2> HIDE DEF S
  <2> QED BY <1>1, <1>2, NatSetInduction
<1> QED BY <1>3

(* What Recover leaves is sound, and its counter is past every log.          *)
LEMMA RecoveredSound ==
  ASSUME LogsTyped, IsFiniteSet(DOMAIN logs), TablesOK(tables),
         manifest.base.next \in Nat, manifest.base.log \in Nat,
         manifest.base.log < manifest.base.next, manifest.base.seq \in 0 .. MaxSeq
  PROVE  RecoverySound(Recovered) /\ \A n \in DOMAIN logs : n < Recovered.next
<1> DEFINE old == {n \in DOMAIN logs : n >= manifest.base.log}
           N == Cardinality(old)
           es == LogsToRecover
           st == RecoveryBase
<1>1. /\ N \in Nat /\ DOMAIN es = 1 .. N
      /\ \A i \in 1 .. N : es[i] \in old
      /\ \A n \in old : \E i \in 1 .. N : es[i] = n
  BY ReplaysAll
<1>2. RecoverySound(st)
  <2>1. /\ IsRecovery(st) /\ st.next = manifest.base.next + 1 /\ st.tables = tables /\ st.add = {}
        /\ st.seq = manifest.base.seq
    BY DEF RecoveryBase, IsRecovery
  <2> HIDE DEF st
  <2> QED BY <2>1 DEF RecoverySound
<1> HIDE DEF N, st, es
<1>3. PICK f : FoldsRecovery(f, st, es, N) /\ Recovered = f[1 .. N]
  BY <1>1, RecoveredFolds DEF st, es
<1>4. LogsNamed(es, N) BY <1>1 DEF LogsNamed, LogsTyped
<1>5. RecoverySound(Recovered) /\ \A i \in 1 .. N : es[i] < Recovered.next
  BY <1>1, <1>2, <1>3, <1>4, ReplayFoldSound
<1>6. ASSUME NEW n \in DOMAIN logs PROVE n < Recovered.next
  <2>1. CASE n \in old BY <1>1, <1>5, <2>1
  <2>2. CASE n \notin old
    <3>1. n \in Nat BY DEF LogsTyped
    <3>2. n < manifest.base.log BY <2>2, <3>1
    <3>3. Recovered.next \in Nat /\ manifest.base.next < Recovered.next
      BY <1>5 DEF RecoverySound
    <3> QED BY <3>1, <3>2, <3>3
  <2> QED BY <2>1, <2>2
<1> QED BY <1>5, <1>6

(* File g is one of the records es, up to the m-th, adds.                    *)
AddedBy(g, es, m) == \E i \in 1 .. m : \E a \in es[i].add : g = a[2]

(* Every file of version v is one of version u or of one of the records.     *)
ComesFrom(v, u, es, m) == \A l \in Level : \A g \in v[l] : g \in FilesOf(u) \/ AddedBy(g, es, m)

(* A record adds its files to those there are.                               *)
LEMMA AppliedComesFrom ==
  ASSUME NEW u, NEW v, NEW es, NEW m \in Nat, ComesFrom(v, u, es, m)
  PROVE  ComesFrom(BuilderSaveTo(v, es[m + 1]), u, es, m + 1)
<1> SUFFICES ASSUME NEW l \in Level, NEW g \in BuilderSaveTo(v, es[m + 1])[l]
             PROVE  g \in FilesOf(u) \/ AddedBy(g, es, m + 1)
  BY DEF ComesFrom
<1>1. Saved(v, es[m + 1], l, g) BY SavedLevel
<1>2. CASE g \in v[l]
  <2>1. g \in FilesOf(u) \/ AddedBy(g, es, m) BY <1>2 DEF ComesFrom
  <2>2. 1 .. m \subseteq 1 .. m + 1 OBVIOUS
  <2>3. AddedBy(g, es, m) => AddedBy(g, es, m + 1) BY <2>2 DEF AddedBy
  <2> QED BY <2>1, <2>3
<1>3. CASE \E a \in es[m + 1].add : a[1] = l /\ g = a[2]
  <2>1. m + 1 \in 1 .. m + 1 OBVIOUS
  <2> QED BY <1>3, <2>1 DEF AddedBy
<1> QED BY <1>1, <1>2, <1>3 DEF Saved

(* The files of the state a manifest gives are those of its base and of its  *)
(* records.                                                                  *)
LEMMA AppliedAllComesFrom ==
  ASSUME NEW st, NEW es, NEW n \in Nat, DOMAIN es = 1 .. n
  PROVE  ComesFrom(AppliedAll(st, es).files, st.files, es, n)
<1>1. PICK f : FoldsApplied(f, st, es, n) /\ AppliedAll(st, es) = f[1 .. n]
  BY AppliedAllFolds
<1> DEFINE Good(m) == ComesFrom(f[1 .. m].files, st.files, es, m)
           S == {m \in Nat : m <= n => Good(m)}
<1>2. 0 \in S
  <2>1. 1 .. 0 = {} OBVIOUS
  <2>2. f[{}] = st BY <1>1, FoldEmpty
  <2>3. ComesFrom(st.files, st.files, es, 0) BY DEF ComesFrom, FilesOf
  <2> QED BY <2>1, <2>2, <2>3
<1>3. ASSUME NEW m \in Nat, m \in S PROVE m + 1 \in S
  <2> SUFFICES ASSUME m + 1 <= n PROVE Good(m + 1) OBVIOUS
  <2> DEFINE k == m + 1
             s == 1 .. k
             r == f[1 .. m]
  <2>1. m <= n BY <1>3
  <2>2. Good(m) BY <1>3, <2>1
  <2>3. k \in 1 .. n /\ s \in SUBSET (1 .. k) /\ k \in s /\ s \ {k} = 1 .. m OBVIOUS
  <2>4. ComesFrom(r.files, st.files, es, m) BY <2>2
  <2> HIDE DEF s, S
  <2>5. f[s] = Applied(f[s \ {k}], es[k]) BY <1>1, <2>3, FoldStep
  <2>6. f[s \ {k}] = r BY <2>3, Zenon
  <2> HIDE DEF r
  <2>7. f[s].files = BuilderSaveTo(r.files, es[k]) BY <2>5, <2>6, AppliedFiles
  <2>8. ComesFrom(f[s].files, st.files, es, k) BY <2>4, <2>7, AppliedComesFrom
  <2> QED BY <2>8 DEF s
<1>4. n \in S
  <2> HIDE DEF S
  <2> QED BY <1>2, <1>3, NatSetInduction
<1>5. Good(n) BY <1>4
<1> QED BY <1>1, <1>5

(* Its counters are those of the last record.                                *)
LEMMA AppliedAllCounters ==
  ASSUME NEW st, NEW es, NEW n \in Nat, DOMAIN es = 1 .. n
  PROVE  /\ n = 0 => AppliedAll(st, es) = st
         /\ n # 0 => /\ AppliedAll(st, es).log = es[n].log
                     /\ AppliedAll(st, es).next = es[n].next
                     /\ AppliedAll(st, es).seq = es[n].seq
<1>1. PICK f : FoldsApplied(f, st, es, n) /\ AppliedAll(st, es) = f[1 .. n]
  BY AppliedAllFolds
<1>2. CASE n = 0
  <2>1. 1 .. n = {} BY <1>2
  <2>2. f[{}] = st BY <1>1, FoldEmpty
  <2> QED BY <1>1, <1>2, <2>1, <2>2
<1>3. CASE n # 0
  <2> DEFINE s == 1 .. n
  <2>1. n \in 1 .. n /\ s \in SUBSET (1 .. n) /\ n \in s BY <1>3
  <2> HIDE DEF s
  <2>2. f[s] = Applied(f[s \ {n}], es[n]) BY <1>1, <2>1, FoldStep
  <2>3. AppliedAll(st, es) = Applied(f[s \ {n}], es[n]) BY <1>1, <2>2 DEF s
  <2>4. /\ AppliedAll(st, es).log = es[n].log
        /\ AppliedAll(st, es).next = es[n].next
        /\ AppliedAll(st, es).seq = es[n].seq
    BY <2>3 DEF Applied
  <2> QED BY <1>3, <2>4
<1> QED BY <1>2, <1>3
=============================================================================
