--------------------------- MODULE LevelDBProofs ---------------------------
(***************************************************************************)
(* LevelDB: no wakeup is lost, the files somebody needs are never deleted,  *)
(* every directory a crash leaves can be opened again, the levels below 0   *)
(* stay sorted and the variables have their types; for any number of        *)
(* writers, levels, files and faults.                                       *)
(***************************************************************************)
EXTENDS LevelDBQueue

(***************************************************************************)
(* The inductive invariant, with QueueOK and Awake of LevelDBQueue.         *)
(***************************************************************************)

(* imm_, the edit and the compaction are one or none.                       *)
Optional(s) == s = <<>> \/ s = <<s[1]>>

(* m has the fields of a manifest.                                          *)
IsManifest(m) == m = [base |-> m.base, tail |-> m.tail]

(* c has the fields of a compaction.                                        *)
IsCompaction(c) == c = [phase |-> c.phase, pick |-> c.pick, version |-> c.version,
                        todo |-> c.todo, outs |-> c.outs]

(* The shapes of the variables, as far as the files and the schedule need   *)
(* them.                                                                    *)
ShapesOK ==
  /\ up \in {"down", "opening", "open"}
  /\ bgError \in BOOLEAN /\ scheduled \in BOOLEAN
  /\ Optional(imm) /\ Optional(edit) /\ Optional(comp)
  /\ IsManifest(manifest) /\ IsSeq(manifest.tail)
  /\ comp # <<>> => IsCompaction(comp[1])
  /\ IsFiniteSet(DOMAIN logs)

(* Until an error the manifest and the memory agree: the synced records     *)
(* give the current version, and the only other record is the one being     *)
(* installed.                                                               *)
ManifestFollows ==
  (up = "open" /\ ~bgError) => manifest.base.files = current /\ manifest.tail = edit

(* Every file of a version that is read, merged from, recorded or about to  *)
(* be installed is on disk.                                                 *)
FilesThere ==
  /\ VersionOK(current, DOMAIN tables)
  /\ VersionOK(manifest.base.files, DOMAIN tables)
  /\ \A v \in pinned : VersionOK(v, DOMAIN tables)
  /\ \A i \in 1 .. Len(manifest.tail) : EditOK(manifest.tail[i], DOMAIN tables)
  /\ edit # <<>> => EditOK(edit[1], DOMAIN tables)
  /\ comp # <<>> => CompOK(comp[1], DOMAIN tables)

(* The background thread is scheduled while something is due and there is   *)
(* no error, while a compaction is under way and while a record is being    *)
(* installed.                                                               *)
DueIsScheduled ==
  /\ up = "open" /\ ~bgError /\ (imm # <<>> \/ Cardinality(current[0]) >= L0_CompactionTrigger)
       => scheduled
  /\ comp # <<>> => scheduled
  /\ up = "open" /\ edit # <<>> => scheduled

(* The schedule, and who waits for it.                                      *)
WorkIsScheduled == DueIsScheduled /\ Awake

(* The inductive invariant.                                                 *)
IInv ==
  /\ QueueOK /\ ShapesOK /\ NotOpenIsQuiet /\ ManifestFollows
  /\ FilesThere /\ WorkIsScheduled

(***************************************************************************)
(* What the steps change.                                                   *)
(***************************************************************************)

(* What a step of a writer changes outside the queue,                       *)
LEMMA WriterChanges ==
  ASSUME NotOpenIsQuiet, NEW w \in Writers, WriterStep(w)
  PROVE  /\ up = "open"
         /\ UNCHANGED <<tables, manifest, up, current, pinned, edit, comp>>
         /\ DOMAIN logs' \in {DOMAIN logs, DOMAIN logs \cup {nextFile}}
<1>0. pc[w] # "idle" => up = "open" BY DEF NotOpenIsQuiet
<1>r. \A n : DOMAIN AddedRecord(n) = DOMAIN logs BY DEF AddedRecord
<1>1. ASSUME NEW j \in budget.jobs, Write(w, j)
      PROVE  up = "open" /\ UNCHANGED <<logs, tables, manifest, up, current, pinned, edit, comp>>
  BY <1>1 DEF Write, disk, memory, background
<1>2. CASE MakeRoomFails(w) BY <1>0, <1>2 DEF MakeRoomFails, disk, memory, background
<1>3. CASE MakeRoomWaits(w) BY <1>0, <1>3 DEF MakeRoomWaits, disk, memory, background
<1>4. CASE SwitchMemTable(w) BY <1>0, <1>4 DEF SwitchMemTable
<1>5. CASE AddRecord(w) BY <1>0, <1>5, <1>r DEF AddRecord, memory, background
<1>6. CASE AddRecordFails(w) BY <1>0, <1>6, <1>r DEF AddRecordFails, background
<1>7. CASE SyncFails(w) BY <1>0, <1>7 DEF SyncFails, disk
<1>8. CASE SyncAndInsert(w)
  <2>1. /\ up = "open"
        /\ UNCHANGED <<tables, manifest, up, current, pinned, edit, comp>>
    BY <1>0, <1>8 DEF SyncAndInsert, background
  <2>2. DOMAIN logs' = DOMAIN logs BY <1>8 DEF SyncAndInsert
  <2> QED BY <2>1, <2>2
<1> QED BY <1>1, <1>2, <1>3, <1>4, <1>5, <1>6, <1>7, <1>8 DEF WriterStep

(* ... and of the memtable being flushed, the error and the schedule.       *)
LEMMA WriterSchedules ==
  ASSUME ShapesOK, NEW w \in Writers, WriterStep(w)
  PROVE  /\ \/ UNCHANGED <<imm, scheduled>>
            \/ imm' = <<mem>> /\ scheduled' = TRUE
         /\ bgError' \in {bgError, TRUE}
<1>1. ASSUME NEW j \in budget.jobs, Write(w, j) PROVE UNCHANGED <<imm, scheduled, bgError>>
  BY <1>1 DEF Write, memory, background
<1>2. CASE MakeRoomFails(w) BY <1>2 DEF MakeRoomFails, memory, background
<1>3. CASE MakeRoomWaits(w) BY <1>3 DEF MakeRoomWaits, memory, background
<1>4. CASE SwitchMemTable(w)
  <2>1. /\ imm' = <<mem>> /\ UNCHANGED bgError /\ ~bgError
        /\ scheduled' \in MaybeScheduleCompaction(bgError, current, <<mem>>)
    BY <1>4 DEF SwitchMemTable
  <2>2. <<mem>> # <<>> OBVIOUS
  <2>3. scheduled' \in BOOLEAN /\ scheduled' BY <2>1, <2>2, Scheduling
  <2> QED BY <2>1, <2>3
<1>5. CASE AddRecord(w) BY <1>5 DEF AddRecord, memory, background
<1>6. CASE AddRecordFails(w) BY <1>6 DEF AddRecordFails, background
<1>7. CASE SyncFails(w) BY <1>7 DEF SyncFails
<1>8. CASE SyncAndInsert(w) BY <1>8 DEF SyncAndInsert, background
<1> QED BY <1>1, <1>2, <1>3, <1>4, <1>5, <1>6, <1>7, <1>8 DEF WriterStep

(* One is one or none.                                                      *)
LEMMA OptionalOne == \A x : Optional(<<x>>) /\ <<x>> # <<>> /\ <<x>>[1] = x
BY DEF Optional

(* None is one or none.                                                     *)
LEMMA OptionalNone == Optional(<<>>)
BY DEF Optional

(* LogRecord leaves a manifest with one record more.                        *)
LEMMA Logged ==
  ASSUME ShapesOK, NEW e, LogRecord(e)
  PROVE  /\ edit' = <<e>>
         /\ manifest'.base = manifest.base /\ manifest'.tail = Append(manifest.tail, e)
         /\ IsManifest(manifest') /\ IsSeq(manifest'.tail)
<1>1. manifest = [base |-> manifest.base, tail |-> manifest.tail] /\ IsSeq(manifest.tail)
  BY DEF ShapesOK, IsManifest
<1>2. edit' = <<e>> /\ manifest' = [manifest EXCEPT !.tail = Append(@, e)] BY DEF LogRecord
<1>3. manifest' = [base |-> manifest.base, tail |-> Append(manifest.tail, e)] BY <1>1, <1>2
<1>4. manifest'.base = manifest.base /\ manifest'.tail = Append(manifest.tail, e) BY <1>3
<1>5. IsManifest(manifest') BY <1>3 DEF IsManifest
<1> QED BY <1>1, <1>2, <1>4, <1>5, AppendIsSeq

(* SyncManifest leaves a manifest with no record that is not synced.        *)
LEMMA Synced ==
  ASSUME SyncManifest
  PROVE  /\ manifest'.base = AppliedAll(manifest.base, manifest.tail) /\ manifest'.tail = <<>>
         /\ IsManifest(manifest') /\ IsSeq(manifest'.tail)
BY EmptyIsSeq DEF SyncManifest, IsManifest

(* DeleteObsoleteFiles keeps the files of the versions and outputs it is    *)
(* told of, and after an error every file.                                  *)
LEMMA DeletesOnlyObsolete ==
  ASSUME NEW vs, NEW n, NEW outs, DeleteObsoleteFiles(vs, n, outs)
  PROVE  /\ \A v \in vs : VersionOK(v, DOMAIN tables) => VersionOK(v, DOMAIN tables')
         /\ \A f \in outs : f.number \in DOMAIN tables => f.number \in DOMAIN tables'
         /\ bgError => tables' = tables
         /\ IsFiniteSet(DOMAIN logs) => IsFiniteSet(DOMAIN logs')
<1> DEFINE live == {f.number : f \in (UNION {FilesOf(v) : v \in vs}) \cup outs}
           young == {m \in DOMAIN logs : m >= n}
<1>1. CASE bgError BY <1>1 DEF DeleteObsoleteFiles
<1>2. CASE ~bgError
  <2>1. /\ tables' = Restrict(tables, DOMAIN tables \cap live)
        /\ logs' = Restrict(logs, young)
    BY <1>2 DEF DeleteObsoleteFiles
  <2>2. \A v \in vs : \A l \in Level : \A f \in v[l] : f.number \in live
    <3> SUFFICES ASSUME NEW v \in vs, NEW l \in Level, NEW f \in v[l] PROVE f.number \in live
      OBVIOUS
    <3>1. f \in FilesOf(v) BY DEF FilesOf
    <3>2. f \in UNION {FilesOf(u) : u \in vs} BY <3>1
    <3> QED BY <3>2, Zenon
  <2>3. \A f \in outs : f.number \in live
    <3>1. ASSUME NEW d \in outs PROVE d.number \in live
      <4>1. d \in (UNION {FilesOf(u) : u \in vs}) \cup outs OBVIOUS
      <4> QED BY <4>1, Zenon
    <3> HIDE DEF live
    <3> QED BY <3>1
  <2>4. young \in SUBSET DOMAIN logs OBVIOUS
  <2> HIDE DEF live, young
  <2>5. DOMAIN tables' = DOMAIN tables \cap live /\ DOMAIN logs' = young BY <2>1 DEF Restrict
  <2>6. \A v \in vs : VersionOK(v, DOMAIN tables) => VersionOK(v, DOMAIN tables')
    BY <2>2, <2>5 DEF VersionOK
  <2>7. IsFiniteSet(DOMAIN logs) => IsFiniteSet(DOMAIN logs') BY <2>4, <2>5, FS_Subset
  <2> QED BY <1>2, <2>3, <2>5, <2>6, <2>7
<1> QED BY <1>1, <1>2

(* The background thread works only while the database is open.             *)
LEMMA BackgroundIsOpen ==
  ASSUME NotOpenIsQuiet, BackgroundStep
  PROVE  up = "open" /\ up' = "open" /\ pinned' = pinned
<1>0. comp # <<>> => up = "open" BY DEF NotOpenIsQuiet
<1>w. Working \/ Installing => comp # <<>> BY DEF Working, Installing, Range
<1>1. CASE WriteLevel0Table BY <1>1 DEF WriteLevel0Table, MayFlush
<1>2. CASE FlushInstalled BY <1>2 DEF FlushInstalled, Flushing
<1>3. CASE FlushFails BY <1>3 DEF FlushFails, MayFlush, Flushing
<1>4. CASE BackgroundCallStops BY <1>4 DEF BackgroundCallStops, memory
<1>5. CASE StartCompaction BY <1>5 DEF StartCompaction, MayCompact, memory
<1>6. CASE MoveFile BY <1>6 DEF MoveFile, MayCompact, memory
<1>7. CASE FinishCompactionOutputFile BY <1>0, <1>w, <1>7 DEF FinishCompactionOutputFile
<1>8. CASE InstallCompactionResults BY <1>0, <1>w, <1>8 DEF InstallCompactionResults, memory
<1>9. CASE CompactionInstalled BY <1>0, <1>w, <1>9 DEF CompactionInstalled
<1>10. CASE CompactionFails BY <1>0, <1>w, <1>10 DEF CompactionFails, memory
<1> QED BY <1>1, <1>2, <1>3, <1>4, <1>5, <1>6, <1>7, <1>8, <1>9, <1>10 DEF BackgroundStep

(* Every step keeps NotOpenIsQuiet.                                         *)
LEMMA QuietKept ==
  ASSUME NotOpenIsQuiet, Next PROVE NotOpenIsQuiet'
<1>1. ASSUME NEW w \in Writers, WriterStep(w) PROVE NotOpenIsQuiet'
  BY <1>1, WriterChanges DEF NotOpenIsQuiet
<1>2. CASE ReaderStep
  <2>1. /\ UNCHANGED <<manifest, up, imm, current, bgError, edit, comp, queue, pc>>
        /\ up # "open" => pinned' \subseteq pinned
        /\ scheduled' = scheduled \/ (pinned # {} /\ scheduled' = TRUE)
    BY <1>2, ReaderKeepsCalls DEF disk, memory, calls
  <2> QED BY <2>1 DEF NotOpenIsQuiet
<1>3. CASE BackgroundStep BY <1>3, BackgroundIsOpen DEF NotOpenIsQuiet
<1>4. CASE Crash
  <2>1. /\ up' = "down" /\ imm' = <<>> /\ comp' = <<>> /\ pinned' = {} /\ queue' = <<>>
        /\ pc' = [w \in Writers |-> "idle"] /\ bgError' = FALSE /\ scheduled' = FALSE
        /\ edit' = <<>>
    BY <1>4 DEF Crash
  <2>2. manifest'.tail = <<>> BY <1>4 DEF Crash
  <2> QED BY <2>1, <2>2 DEF NotOpenIsQuiet
<1>5. CASE Open
  <2>1. /\ up = "down" /\ up' = "opening"
        /\ UNCHANGED <<manifest, imm, pinned, bgError, scheduled, comp, queue, pc>>
        /\ current' = manifest.base.files
    BY <1>5 DEF Open, calls
  <2>2. edit' # <<>> BY <1>5 DEF Open
  <2> QED BY <2>1, <2>2 DEF NotOpenIsQuiet
<1>6. CASE OpenInstalled BY <1>6 DEF OpenInstalled, NotOpenIsQuiet
<1> QED BY <1>1, <1>2, <1>3, <1>4, <1>5, <1>6 DEF Next

(***************************************************************************)
(* Shapes.                                                                  *)
(***************************************************************************)

(* If it is not none it is one.                                             *)
LEMMA OneOrNone ==
  ASSUME NEW s, Optional(s), s # <<>> PROVE s = <<s[1]>>
BY DEF Optional

(* The compaction at work.                                                  *)
LEMMA WorkingShape ==
  ASSUME ShapesOK, Working \/ Installing
  PROVE  comp # <<>> /\ IsCompaction(comp[1])
<1>1. comp # <<>> BY DEF Working, Installing, Range
<1> QED BY <1>1 DEF ShapesOK

(* Compaction c when output file f has been made of entries T.              *)
WithOutput(c, T, f) == [c EXCEPT !.todo = @ \ {T}, !.outs = @ \cup {f}]

(* It keeps its input version and has one output more.                      *)
LEMMA OutputAdded ==
  ASSUME NEW d, IsCompaction(d), NEW T, NEW f
  PROVE  /\ IsCompaction(WithOutput(d, T, f))
         /\ WithOutput(d, T, f).version = d.version
         /\ WithOutput(d, T, f).outs = d.outs \cup {f}
<1> DEFINE c == WithOutput(d, T, f)
<1>1. d = [phase |-> d.phase, pick |-> d.pick, version |-> d.version, todo |-> d.todo,
           outs |-> d.outs]
  BY DEF IsCompaction
<1>2. c = [phase |-> d.phase, pick |-> d.pick, version |-> d.version, todo |-> d.todo \ {T},
           outs |-> d.outs \cup {f}]
  <2> DEFINE e == [d EXCEPT !.todo = d.todo \ {T}]
  <2>1. e = [phase |-> d.phase, pick |-> d.pick, version |-> d.version, todo |-> d.todo \ {T},
             outs |-> d.outs]
    BY <1>1
  <2>2. c = [e EXCEPT !.outs = d.outs \cup {f}] BY DEF WithOutput
  <2> HIDE DEF e, c
  <2> QED BY <2>1, <2>2
<1> HIDE DEF c
<1>3. IsCompaction(c) /\ c.version = d.version /\ c.outs = d.outs \cup {f}
  BY <1>2 DEF IsCompaction
<1> QED BY <1>3 DEF c

(* A compaction that goes on to its next phase keeps its version and        *)
(* outputs.                                                                 *)
LEMMA PhaseSet ==
  ASSUME NEW d, IsCompaction(d), NEW p
  PROVE  LET c == [d EXCEPT !.phase = p]
         IN  IsCompaction(c) /\ c.version = d.version /\ c.outs = d.outs
<1> DEFINE c == [d EXCEPT !.phase = p]
<1>1. d = [phase |-> d.phase, pick |-> d.pick, version |-> d.version, todo |-> d.todo,
           outs |-> d.outs]
  BY DEF IsCompaction
<1>2. c = [phase |-> p, pick |-> d.pick, version |-> d.version, todo |-> d.todo, outs |-> d.outs]
  BY <1>1
<1> HIDE DEF c
<1>3. IsCompaction(c) /\ c.version = d.version /\ c.outs = d.outs BY <1>2 DEF IsCompaction
<1> QED BY <1>3 DEF c

(* The parts of ShapesOK, one at a time: the compaction,                    *)
LEMMA CompShape ==
  ASSUME ShapesOK, Next
  PROVE  Optional(comp') /\ (comp' # <<>> => IsCompaction(comp'[1]))
<1> DEFINE G == Optional(comp') /\ (comp' # <<>> => IsCompaction(comp'[1]))
<1> SUFFICES G OBVIOUS
<1>0. comp' \in {comp, <<>>} => G BY OptionalNone DEF ShapesOK
<1>c. \A c : comp' = <<c>> /\ IsCompaction(c) => G BY OptionalOne
<1> HIDE DEF G
<1>1. ASSUME NEW w \in Writers, WriterStep(w) PROVE comp' = comp
  <2>1. ASSUME NEW j \in budget.jobs, Write(w, j) PROVE comp' = comp BY <2>1 DEF Write, background
  <2> QED BY <1>1, <2>1 DEF WriterStep, MakeRoomFails, MakeRoomWaits, SwitchMemTable, AddRecord,
             AddRecordFails, SyncFails, SyncAndInsert, background
<1>2. CASE ReaderStep BY <1>0, <1>2, ReaderKeepsCalls
<1>3. CASE WriteLevel0Table BY <1>0, <1>3 DEF WriteLevel0Table
<1>4. CASE FlushInstalled BY <1>0, <1>4 DEF FlushInstalled
<1>5. CASE FlushFails BY <1>0, <1>5 DEF FlushFails
<1>6. CASE BackgroundCallStops BY <1>0, <1>6 DEF BackgroundCallStops
<1>7. CASE StartCompaction
  <2>1. PICK c, T : comp' = <<[phase |-> "work", pick |-> c, version |-> current,
                               todo |-> T, outs |-> {}]>>
    BY <1>7 DEF StartCompaction
  <2>2. IsCompaction([phase |-> "work", pick |-> c, version |-> current, todo |-> T, outs |-> {}])
    BY DEF IsCompaction
  <2> QED BY <1>c, <2>1, <2>2
<1>8. CASE MoveFile
  <2>1. PICK c : comp' = <<[phase |-> "move", pick |-> c, version |-> current,
                            todo |-> {}, outs |-> {}]>>
    BY <1>8 DEF MoveFile
  <2>2. IsCompaction([phase |-> "move", pick |-> c, version |-> current, todo |-> {}, outs |-> {}])
    BY DEF IsCompaction
  <2> QED BY <1>c, <2>1, <2>2
<1>9. CASE FinishCompactionOutputFile
  <2>1. IsCompaction(comp[1]) BY <1>9, WorkingShape DEF FinishCompactionOutputFile
  <2>2. PICK S : comp' = <<[comp[1] EXCEPT !.todo = @ \ {S},
                                           !.outs = @ \cup {FileMetaData(nextFile, S)}]>>
    BY <1>9 DEF FinishCompactionOutputFile
  <2> DEFINE c == WithOutput(comp[1], S, FileMetaData(nextFile, S))
  <2>3. IsCompaction(c)
    BY <2>1, OutputAdded
  <2>4. comp' = <<c>> BY <2>2 DEF WithOutput
  <2> HIDE DEF c
  <2> QED BY <1>c, <2>3, <2>4
<1>10. CASE InstallCompactionResults
  <2>1. IsCompaction(comp[1]) BY <1>10, WorkingShape DEF InstallCompactionResults
  <2> DEFINE c == [comp[1] EXCEPT !.phase = "log"]
  <2>2. IsCompaction(c) BY <2>1, PhaseSet
  <2>3. comp' = <<c>> BY <1>10 DEF InstallCompactionResults
  <2> HIDE DEF c
  <2> QED BY <1>c, <2>2, <2>3
<1>11. CASE CompactionInstalled BY <1>0, <1>11 DEF CompactionInstalled
<1>12. CASE CompactionFails BY <1>0, <1>12 DEF CompactionFails
<1>13. CASE Crash BY <1>0, <1>13 DEF Crash
<1>14. CASE Open BY <1>0, <1>14 DEF Open
<1>15. CASE OpenInstalled BY <1>0, <1>15 DEF OpenInstalled
<1> QED BY <1>0, <1>1, <1>2, <1>3, <1>4, <1>5, <1>6, <1>7, <1>8, <1>9, <1>10, <1>11, <1>12,
            <1>13, <1>14, <1>15 DEF Next, BackgroundStep

(* What the three steps that write a record have in common.                 *)
LEMMA LoggedRecord ==
  ASSUME WriteLevel0Table \/ MoveFile \/ InstallCompactionResults
  PROVE  /\ \E e : LogRecord(e)
         /\ UNCHANGED <<logs, imm, current, bgError, scheduled, pc>>
         /\ edit = <<>>
<1>1. CASE WriteLevel0Table
  <2>1. \E e : LogRecord(e) BY <1>1 DEF WriteLevel0Table
  <2> QED BY <1>1, <2>1 DEF WriteLevel0Table, calls, MayFlush
<1>2. CASE MoveFile
  <2>1. \E e : LogRecord(e) BY <1>2 DEF MoveFile
  <2> QED BY <1>2, <2>1 DEF MoveFile, calls, memory, MayCompact
<1>3. CASE InstallCompactionResults
  <2>1. \E e : LogRecord(e) BY <1>3 DEF InstallCompactionResults
  <2> QED BY <1>3, <2>1 DEF InstallCompactionResults, calls, memory, Working
<1> QED BY <1>1, <1>2, <1>3

(* ... the manifest and the record,                                         *)
LEMMA ManifestShape ==
  ASSUME ShapesOK, NotOpenIsQuiet, Next
  PROVE  IsManifest(manifest') /\ IsSeq(manifest'.tail) /\ Optional(edit')
<1> DEFINE G == IsManifest(manifest') /\ IsSeq(manifest'.tail) /\ Optional(edit')
<1> SUFFICES G OBVIOUS
<1>0. manifest' = manifest /\ edit' \in {edit, <<>>} => G BY OptionalNone DEF ShapesOK
<1>s. SyncManifest /\ edit' = <<>> => G BY Synced, OptionalNone
<1>1. ASSUME NEW w \in Writers, WriterStep(w) PROVE G BY <1>0, <1>1, WriterChanges
<1>2. CASE ReaderStep BY <1>0, <1>2, ReaderKeepsCalls DEF disk
<1>3. CASE WriteLevel0Table \/ MoveFile \/ InstallCompactionResults
  BY <1>3, LoggedRecord, Logged, OptionalOne
<1>4. CASE FlushInstalled BY <1>s, <1>4 DEF FlushInstalled
<1>5. CASE FlushFails BY <1>0, <1>5 DEF FlushFails, disk
<1>6. CASE BackgroundCallStops BY <1>0, <1>6 DEF BackgroundCallStops, disk
<1>7. CASE StartCompaction BY <1>0, <1>7 DEF StartCompaction, disk
<1>8. CASE FinishCompactionOutputFile BY <1>0, <1>8 DEF FinishCompactionOutputFile
<1>9. CASE CompactionInstalled BY <1>s, <1>9 DEF CompactionInstalled
<1>10. CASE CompactionFails BY <1>0, <1>10 DEF CompactionFails, disk
<1>11. CASE Crash
  <2>1. edit' = <<>> /\ \E b : manifest' = [base |-> b, tail |-> <<>>] BY <1>11 DEF Crash
  <2>2. PICK b : manifest' = [base |-> b, tail |-> <<>>] BY <2>1
  <2>3. IsManifest(manifest') /\ manifest'.tail = <<>> BY <2>2 DEF IsManifest
  <2> QED BY <2>1, <2>3, EmptyIsSeq, OptionalNone
<1>12. CASE Open
  <2>1. manifest' = manifest BY <1>12 DEF Open
  <2>2. \E e : edit' = <<e>> BY <1>12 DEF Open
  <2> QED BY <2>1, <2>2, OptionalOne DEF ShapesOK
<1>13. CASE OpenInstalled
  <2>1. edit' = <<>> /\ manifest' = [base |-> Applied(manifest.base, edit[1]), tail |-> <<>>]
    BY <1>13 DEF OpenInstalled
  <2>2. IsManifest(manifest') /\ manifest'.tail = <<>> BY <2>1 DEF IsManifest
  <2> QED BY <2>1, <2>2, EmptyIsSeq, OptionalNone
<1> HIDE DEF G
<1> QED BY <1>1, <1>2, <1>3, <1>4, <1>5, <1>6, <1>7, <1>8, <1>9, <1>10, <1>11, <1>12, <1>13
         DEF Next, BackgroundStep

(* ... the flags and the memtable being flushed,                            *)
LEMMA FlagsShape ==
  ASSUME ShapesOK, NotOpenIsQuiet, Next
  PROVE  /\ up' \in {"down", "opening", "open"}
         /\ bgError' \in BOOLEAN /\ scheduled' \in BOOLEAN
         /\ Optional(imm')
<1> DEFINE G == /\ up' \in {"down", "opening", "open"}
                /\ bgError' \in BOOLEAN /\ scheduled' \in BOOLEAN
                /\ Optional(imm')
<1> SUFFICES G OBVIOUS
<1>0. /\ up \in {"down", "opening", "open"}
      /\ bgError \in BOOLEAN /\ scheduled \in BOOLEAN /\ Optional(imm)
  BY DEF ShapesOK
<1>1. ASSUME NEW w \in Writers, WriterStep(w) PROVE G
  BY <1>0, <1>1, WriterChanges, WriterSchedules, OptionalOne
<1>2. CASE ReaderStep
  <2>1. UNCHANGED <<up, bgError, imm>> /\ (scheduled' = scheduled \/ scheduled' = TRUE)
    BY <1>2, ReaderKeepsCalls DEF memory
  <2> QED BY <1>0, <2>1
<1>3. CASE WriteLevel0Table \/ MoveFile \/ InstallCompactionResults
  <2>1. BackgroundStep BY <1>3 DEF BackgroundStep
  <2> QED BY <1>0, <1>3, <2>1, LoggedRecord, BackgroundIsOpen
<1>4. CASE FlushInstalled
  <2>1. UNCHANGED <<up, bgError>> /\ imm' = <<>> BY <1>4 DEF FlushInstalled
  <2>2. scheduled' = scheduled \/ \E v : scheduled' \in MaybeScheduleCompaction(bgError, v, <<>>)
    BY <1>4 DEF FlushInstalled
  <2>3. scheduled' \in BOOLEAN BY <1>0, <2>2, Scheduling
  <2> QED BY <1>0, <2>1, <2>3, OptionalNone
<1>5. CASE FlushFails BY <1>0, <1>5 DEF FlushFails
<1>6. CASE BackgroundCallStops BY <1>0, <1>6 DEF BackgroundCallStops, memory
<1>7. CASE StartCompaction BY <1>0, <1>7 DEF StartCompaction, memory
<1>8. CASE FinishCompactionOutputFile BY <1>0, <1>8 DEF FinishCompactionOutputFile
<1>9. CASE CompactionInstalled
  <2>1. UNCHANGED <<up, bgError, imm>> BY <1>9 DEF CompactionInstalled
  <2>2. \E v : scheduled' \in MaybeScheduleCompaction(bgError, v, imm) BY <1>9 DEF CompactionInstalled
  <2>3. scheduled' \in BOOLEAN BY <2>2, Scheduling
  <2> QED BY <1>0, <2>1, <2>3
<1>10. CASE CompactionFails BY <1>0, <1>10 DEF CompactionFails, memory
<1>11. CASE Crash
  <2>1. up' = "down" /\ imm' = <<>> /\ bgError' = FALSE /\ scheduled' = FALSE BY <1>11 DEF Crash
  <2> QED BY <2>1, OptionalNone
<1>12. CASE Open BY <1>0, <1>12 DEF Open
<1>13. CASE OpenInstalled
  <2>1. up' = "open" /\ UNCHANGED <<bgError, imm>> BY <1>13 DEF OpenInstalled
  <2>2. \E v : scheduled' \in MaybeScheduleCompaction(FALSE, v, <<>>) BY <1>13 DEF OpenInstalled
  <2>3. scheduled' \in BOOLEAN BY <2>2, Scheduling
  <2> QED BY <1>0, <2>1, <2>3
<1> HIDE DEF G
<1> QED BY <1>1, <1>2, <1>3, <1>4, <1>5, <1>6, <1>7, <1>8, <1>9, <1>10, <1>11, <1>12, <1>13
        DEF Next, BackgroundStep

(* ... the logs.                                                            *)
LEMMA LogsShape ==
  ASSUME ShapesOK, NotOpenIsQuiet, Next
  PROVE  IsFiniteSet(DOMAIN logs')
<1>0. IsFiniteSet(DOMAIN logs) BY DEF ShapesOK
<1>a. \A x : IsFiniteSet(DOMAIN logs \cup {x}) BY <1>0, FS_AddElement
<1>1. ASSUME NEW w \in Writers, WriterStep(w) PROVE IsFiniteSet(DOMAIN logs')
  BY <1>0, <1>1, <1>a, WriterChanges
<1>2. CASE ReaderStep BY <1>0, <1>2, ReaderKeepsCalls DEF disk
<1>3. CASE WriteLevel0Table \/ MoveFile \/ InstallCompactionResults
  BY <1>0, <1>3, LoggedRecord
<1>4. CASE FlushInstalled
  <2>1. \E vs, n, outs : DeleteObsoleteFiles(vs, n, outs) BY <1>4 DEF FlushInstalled
  <2> QED BY <1>0, <2>1, DeletesOnlyObsolete
<1>5. CASE FlushFails BY <1>0, <1>5 DEF FlushFails, disk
<1>6. CASE BackgroundCallStops BY <1>0, <1>6 DEF BackgroundCallStops, disk
<1>7. CASE StartCompaction BY <1>0, <1>7 DEF StartCompaction, disk
<1>8. CASE FinishCompactionOutputFile BY <1>0, <1>8 DEF FinishCompactionOutputFile
<1>9. CASE CompactionInstalled
  <2>1. UNCHANGED logs \/ \E vs, n, outs : DeleteObsoleteFiles(vs, n, outs)
    BY <1>9 DEF CompactionInstalled
  <2> QED BY <1>0, <2>1, DeletesOnlyObsolete
<1>10. CASE CompactionFails BY <1>0, <1>10 DEF CompactionFails, disk
<1>11. CASE Crash
  <2>1. DOMAIN logs' = DOMAIN logs BY <1>11 DEF Crash
  <2> QED BY <1>0, <2>1
<1>12. CASE Open
  <2>1. DOMAIN logs' = DOMAIN logs \cup {Recovered.next} BY <1>12 DEF Open
  <2> QED BY <1>a, <2>1
<1>13. CASE OpenInstalled
  <2>1. \E vs, n, outs : DeleteObsoleteFiles(vs, n, outs) BY <1>13 DEF OpenInstalled
  <2> QED BY <1>0, <2>1, DeletesOnlyObsolete
<1> QED BY <1>1, <1>2, <1>3, <1>4, <1>5, <1>6, <1>7, <1>8, <1>9, <1>10, <1>11, <1>12, <1>13
        DEF Next, BackgroundStep

(* Every step keeps ShapesOK.                                               *)
LEMMA ShapesKept ==
  ASSUME ShapesOK, NotOpenIsQuiet, Next PROVE ShapesOK'
BY CompShape, ManifestShape, FlagsShape, LogsShape DEF ShapesOK

(* Every step keeps ManifestFollows.                                        *)
LEMMA ManifestKept ==
  ASSUME ShapesOK, NotOpenIsQuiet, ManifestFollows, Next PROVE ManifestFollows'
<1> SUFFICES ASSUME up' = "open", ~bgError'
             PROVE  manifest'.base.files = current' /\ manifest'.tail = edit'
  BY DEF ManifestFollows
<1>0. up = "open" /\ ~bgError => manifest.base.files = current /\ manifest.tail = edit
  BY DEF ManifestFollows
<1>1. ASSUME NEW w \in Writers, WriterStep(w)
      PROVE  manifest'.base.files = current' /\ manifest'.tail = edit'
  BY <1>0, <1>1, WriterChanges, WriterSchedules
<1>2. CASE ReaderStep BY <1>0, <1>2, ReaderKeepsCalls DEF disk, memory
<1>3. CASE WriteLevel0Table \/ MoveFile \/ InstallCompactionResults
  <2>1. BackgroundStep BY <1>3 DEF BackgroundStep
  <2>2. PICK e : LogRecord(e) BY <1>3, LoggedRecord
  <2>3. /\ edit' = <<e>> /\ manifest'.base = manifest.base
        /\ manifest'.tail = Append(manifest.tail, e)
    BY <2>2, Logged
  <2>4. UNCHANGED <<current, bgError>> /\ edit = <<>> BY <1>3, LoggedRecord
  <2>5. manifest.base.files = current /\ manifest.tail = <<>> BY <1>0, <2>1, <2>4, BackgroundIsOpen
  <2>6. Append(<<>>, e) = <<e>> OBVIOUS
  <2> QED BY <2>3, <2>4, <2>5, <2>6
<1>4. CASE FlushInstalled \/ CompactionInstalled
  <2>1. BackgroundStep BY <1>4 DEF BackgroundStep
  <2>2. /\ SyncManifest /\ edit # <<>> /\ edit' = <<>> /\ UNCHANGED bgError
        /\ current' = BuilderSaveTo(current, edit[1])
    BY <1>4 DEF FlushInstalled, CompactionInstalled, Flushing, Installing
  <2>3. edit = <<edit[1]>> BY <2>2, OneOrNone DEF ShapesOK
  <2>4. manifest.base.files = current /\ manifest.tail = <<edit[1]>>
    BY <1>0, <2>1, <2>2, <2>3, BackgroundIsOpen
  <2>5. manifest'.base = AppliedAll(manifest.base, manifest.tail) /\ manifest'.tail = <<>>
    BY <2>2, Synced
  <2>6. manifest'.base = Applied(manifest.base, edit[1]) BY <2>4, <2>5, AppliedAllOne
  <2>7. manifest'.base.files = BuilderSaveTo(manifest.base.files, edit[1]) BY <2>6, AppliedFiles
  <2> QED BY <2>2, <2>4, <2>5, <2>7
<1>5. CASE FlushFails BY <1>5 DEF FlushFails
<1>6. CASE BackgroundCallStops BY <1>6 DEF BackgroundCallStops
<1>7. CASE StartCompaction
  BY <1>0, <1>7 DEF StartCompaction, disk, memory, MayCompact
<1>8. CASE FinishCompactionOutputFile BY <1>0, <1>8 DEF FinishCompactionOutputFile
<1>9. CASE CompactionFails BY <1>9 DEF CompactionFails
<1>10. CASE Crash BY <1>10 DEF Crash
<1>11. CASE Open BY <1>11 DEF Open
<1>12. CASE OpenInstalled
  <2>1. /\ up = "opening" /\ current' = BuilderSaveTo(current, edit[1]) /\ edit' = <<>>
        /\ manifest' = [base |-> Applied(manifest.base, edit[1]), tail |-> <<>>]
    BY <1>12 DEF OpenInstalled
  <2>2. current = manifest.base.files BY <2>1 DEF NotOpenIsQuiet
  <2>3. manifest'.base = Applied(manifest.base, edit[1]) /\ manifest'.tail = <<>> BY <2>1
  <2>4. manifest'.base.files = BuilderSaveTo(manifest.base.files, edit[1]) BY <2>3, AppliedFiles
  <2> QED BY <2>1, <2>2, <2>3, <2>4
<1> QED BY <1>1, <1>2, <1>3, <1>4, <1>5, <1>6, <1>7, <1>8, <1>9, <1>10, <1>11, <1>12
        DEF Next, BackgroundStep

(***************************************************************************)
(* Files.                                                                   *)
(***************************************************************************)

(* What is on disk stays on disk when there are more files.                 *)
LEMMA MoreFiles ==
  ASSUME NEW on, NEW more, on \subseteq more
  PROVE  /\ \A v : VersionOK(v, on) => VersionOK(v, more)
         /\ \A e : EditOK(e, on) => EditOK(e, more)
         /\ \A c : CompOK(c, on) => CompOK(c, more)
<1>1. \A v : VersionOK(v, on) => VersionOK(v, more) BY DEF VersionOK
<1>2. \A e : EditOK(e, on) => EditOK(e, more) BY DEF EditOK
<1>3. \A c : CompOK(c, on) => CompOK(c, more) BY <1>1 DEF CompOK
<1> QED BY <1>1, <1>2, <1>3

(* The version of a new database needs no file.                             *)
LEMMA NoFilesOK == \A on : VersionOK(NoFiles, on)
BY FS_EmptySet DEF VersionOK, NoFiles

(* A record that places files F in level l names files on disk, if they     *)
(* are.                                                                     *)
LEMMA PlacedFiles ==
  ASSUME NEW F, IsFiniteSet(F), NEW l, NEW on, \A f \in F : f.number \in on,
         NEW e, e.add = {<<l, f>> : f \in F}
  PROVE  EditOK(e, on)
<1> DEFINE place == [f \in F |-> <<l, f>>]
<1>1. e.add = {place[f] : f \in F} OBVIOUS
<1> HIDE DEF place
<1>2. IsFiniteSet(e.add) BY <1>1, FiniteImage
<1>3. \A a \in e.add : a[2].number \in on OBVIOUS
<1> QED BY <1>2, <1>3 DEF EditOK

(* A step that logs record e and deletes no file keeps FilesThere,          *)
LEMMA LogKeepsFiles ==
  ASSUME ShapesOK, FilesThere, NEW e, LogRecord(e), DOMAIN tables \subseteq DOMAIN tables',
         EditOK(e, DOMAIN tables'), UNCHANGED <<current, pinned>>,
         comp' # <<>> => CompOK(comp'[1], DOMAIN tables')
  PROVE  FilesThere'
<1>1. /\ edit' = <<e>> /\ manifest'.base = manifest.base
      /\ manifest'.tail = Append(manifest.tail, e)
  BY Logged
<1>2. IsSeq(manifest.tail) BY DEF ShapesOK
<1>3. /\ Len(manifest.tail) \in Nat /\ Len(manifest'.tail) = Len(manifest.tail) + 1
      /\ \A i \in 1 .. Len(manifest.tail) + 1 :
           manifest'.tail[i] = IF i = Len(manifest.tail) + 1 THEN e ELSE manifest.tail[i]
  BY <1>1, <1>2, AppendIsSeq
<1>4. ASSUME NEW i \in 1 .. Len(manifest'.tail) PROVE EditOK(manifest'.tail[i], DOMAIN tables')
  <2>1. CASE i = Len(manifest.tail) + 1 BY <1>3, <2>1
  <2>2. CASE i # Len(manifest.tail) + 1
    <3>1. i \in 1 .. Len(manifest.tail) /\ manifest'.tail[i] = manifest.tail[i] BY <1>3, <2>2
    <3>2. EditOK(manifest.tail[i], DOMAIN tables) BY <3>1 DEF FilesThere
    <3> QED BY <3>1, <3>2, MoreFiles
  <2> QED BY <2>1, <2>2
<1>5. /\ VersionOK(current, DOMAIN tables) /\ VersionOK(manifest.base.files, DOMAIN tables)
      /\ \A v \in pinned : VersionOK(v, DOMAIN tables)
  BY DEF FilesThere
<1>6. /\ VersionOK(current', DOMAIN tables') /\ VersionOK(manifest'.base.files, DOMAIN tables')
      /\ \A v \in pinned' : VersionOK(v, DOMAIN tables')
  BY <1>1, <1>5, MoreFiles
<1>7. edit'[1] = e BY <1>1
<1> QED BY <1>4, <1>6, <1>7 DEF FilesThere

(* ... one that leaves the manifest and the versions alone and deletes no   *)
(* file,                                                                    *)
LEMMA SameManifestKeepsFiles ==
  ASSUME FilesThere, UNCHANGED <<manifest, current>>, DOMAIN tables \subseteq DOMAIN tables',
         pinned' \subseteq pinned \cup {current}, edit' \in {edit, <<>>},
         comp' # <<>> => comp' = comp \/ CompOK(comp'[1], DOMAIN tables')
  PROVE  FilesThere'
<1>1. /\ VersionOK(current, DOMAIN tables') /\ VersionOK(manifest.base.files, DOMAIN tables')
      /\ \A v \in pinned : VersionOK(v, DOMAIN tables')
      /\ \A i \in 1 .. Len(manifest.tail) : EditOK(manifest.tail[i], DOMAIN tables')
      /\ edit # <<>> => EditOK(edit[1], DOMAIN tables')
      /\ comp # <<>> => CompOK(comp[1], DOMAIN tables')
  BY MoreFiles DEF FilesThere
<1> QED BY <1>1 DEF FilesThere

(* ... and one that syncs the manifest, installs a version and deletes what *)
(* is obsolete.  After an error nothing is deleted, so records of unknown   *)
(* fate do no harm.                                                         *)
LEMMA InstallKeepsFiles ==
  ASSUME ShapesOK, FilesThere, ManifestFollows', SyncManifest, up' = "open", edit # <<>>,
         edit' = <<>>, UNCHANGED <<bgError, pinned>>,
         current' = BuilderSaveTo(current, edit[1]),
         bgError => tables' = tables,
         NEW kept, {current'} \cup pinned \subseteq kept,
         \A v \in kept : VersionOK(v, DOMAIN tables) => VersionOK(v, DOMAIN tables'),
         comp' # <<>> => CompOK(comp'[1], DOMAIN tables')
  PROVE  FilesThere'
<1>1. VersionOK(current', DOMAIN tables) BY SaveToKeeps DEF FilesThere
<1>2. VersionOK(current', DOMAIN tables') BY <1>1
<1>3. \A v \in pinned' : VersionOK(v, DOMAIN tables')
  <2>1. ASSUME NEW v \in pinned PROVE VersionOK(v, DOMAIN tables')
    <3>1. VersionOK(v, DOMAIN tables) /\ v \in kept BY DEF FilesThere
    <3> QED BY <3>1
  <2> QED BY <2>1
<1>4. manifest'.base = AppliedAll(manifest.base, manifest.tail) /\ manifest'.tail = <<>>
  BY Synced
<1>5. VersionOK(manifest'.base.files, DOMAIN tables')
  <2>1. CASE bgError
    <3>1. Len(manifest.tail) \in Nat /\ DOMAIN manifest.tail = 1 .. Len(manifest.tail)
      BY AppendIsSeq DEF ShapesOK
    <3>2. /\ VersionOK(manifest.base.files, DOMAIN tables)
          /\ \A i \in 1 .. Len(manifest.tail) : EditOK(manifest.tail[i], DOMAIN tables)
      BY DEF FilesThere
    <3>3. VersionOK(AppliedAll(manifest.base, manifest.tail).files, DOMAIN tables)
      BY <3>1, <3>2, AppliedAllKeeps
    <3> QED BY <1>4, <2>1, <3>3
  <2>2. CASE ~bgError
    <3>1. manifest'.base.files = current' BY <2>2 DEF ManifestFollows
    <3> QED BY <1>2, <3>1
  <2> QED BY <2>1, <2>2
<1> QED BY <1>2, <1>3, <1>4, <1>5, EmptyIsSeq DEF FilesThere

(* CompactMemTable builds a table and logs it.                              *)
LEMMA FlushLogKeepsFiles ==
  ASSUME ShapesOK, FilesThere, WriteLevel0Table PROVE FilesThere'
<1>1. UNCHANGED <<current, pinned, comp>> BY DEF WriteLevel0Table
<1> DEFINE f == FileMetaData(nextFile, imm[1])
<1>2. f.number = nextFile BY DEF FileMetaData
<1>3. CASE imm[1] = {}
  <2> DEFINE e == VersionEdit(logfileNumber, nextFile + 1, {}, {})
  <2>1. tables' = tables /\ LogRecord(e) BY <1>3 DEF WriteLevel0Table
  <2>2. e.add = {} BY DEF VersionEdit
  <2> HIDE DEF e
  <2>3. EditOK(e, DOMAIN tables') BY <2>2, FS_EmptySet DEF EditOK
  <2>4. comp' # <<>> => CompOK(comp'[1], DOMAIN tables') BY <1>1, <2>1 DEF FilesThere
  <2> QED BY <1>1, <2>1, <2>3, <2>4, LogKeepsFiles
<1>4. CASE imm[1] # {}
  <2>1. /\ tables' = [n \in DOMAIN tables \cup {nextFile} |->
                         IF n = nextFile THEN imm[1] ELSE tables[n]]
        /\ \E l : LogRecord(VersionEdit(logfileNumber, nextFile + 1, {}, {<<l, f>>}))
    BY <1>4 DEF WriteLevel0Table
  <2>2. PICK l : LogRecord(VersionEdit(logfileNumber, nextFile + 1, {}, {<<l, f>>})) BY <2>1
  <2> DEFINE e == VersionEdit(logfileNumber, nextFile + 1, {}, {<<l, f>>})
  <2>3. e.add = {<<l, f>>} BY DEF VersionEdit
  <2>4. DOMAIN tables' = DOMAIN tables \cup {nextFile} BY <2>1
  <2>5. LogRecord(e) BY <2>2
  <2> HIDE DEF e, f
  <2>6. EditOK(e, DOMAIN tables')
    <3>1. IsFiniteSet(e.add) BY <2>3, FS_Singleton
    <3>2. \A a \in e.add : a[2].number \in DOMAIN tables' BY <1>2, <2>3, <2>4
    <3> QED BY <3>1, <3>2 DEF EditOK
  <2>7. comp # <<>> => CompOK(comp[1], DOMAIN tables) BY DEF FilesThere
  <2>8. comp' # <<>> => CompOK(comp'[1], DOMAIN tables') BY <1>1, <2>4, <2>7, MoreFiles
  <2>9. DOMAIN tables \subseteq DOMAIN tables' BY <2>4
  <2> QED BY <1>1, <2>5, <2>6, <2>8, <2>9, LogKeepsFiles
<1> QED BY <1>3, <1>4

(* A trivial move logs a file of the current version.                       *)
LEMMA MoveKeepsFiles ==
  ASSUME ShapesOK, FilesThere, MoveFile PROVE FilesThere'
<1>1. PICK c \in PickCompaction(current) :
        /\ comp' = <<[phase |-> "move", pick |-> c, version |-> current, todo |-> {}, outs |-> {}]>>
        /\ LogRecord(VersionEdit(logNumber, nextFile, AddInputDeletions(c),
                                 {<<c.level + 1, f>> : f \in c.in0}))
  BY DEF MoveFile
<1>2. UNCHANGED <<tables, current, pinned>> BY DEF MoveFile, memory
<1> DEFINE e == VersionEdit(logNumber, nextFile, AddInputDeletions(c),
                            {<<c.level + 1, f>> : f \in c.in0})
           d == [phase |-> "move", pick |-> c, version |-> current, todo |-> {}, outs |-> {}]
<1>3. VersionOK(current, DOMAIN tables) BY DEF FilesThere
<1>4. c.level \in Level /\ c.in0 \subseteq current[c.level] BY <1>3, PickTakesFiles
<1>5. IsFiniteSet(c.in0) /\ \A f \in c.in0 : f.number \in DOMAIN tables
  BY <1>3, <1>4, FS_Subset DEF VersionOK
<1>6. e.add = {<<c.level + 1, f>> : f \in c.in0} BY DEF VersionEdit
<1>7. LogRecord(e) /\ comp' = <<d>> BY <1>1
<1>8. CompOK(d, DOMAIN tables) BY <1>3, FS_EmptySet DEF CompOK
<1> HIDE DEF e, d
<1>9. EditOK(e, DOMAIN tables) BY <1>5, <1>6, PlacedFiles
<1>10. CompOK(comp'[1], DOMAIN tables') BY <1>2, <1>7, <1>8
<1> QED BY <1>2, <1>7, <1>9, <1>10, LogKeepsFiles

(* A compaction logs its outputs.                                           *)
LEMMA ResultsKeepFiles ==
  ASSUME ShapesOK, FilesThere, InstallCompactionResults PROVE FilesThere'
<1> DEFINE l == comp[1].pick.level + 1
           e == VersionEdit(logNumber, nextFile, AddInputDeletions(comp[1].pick),
                            {<<l, f>> : f \in comp[1].outs})
           d == [comp[1] EXCEPT !.phase = "log"]
<1>1. LogRecord(e) /\ comp' = <<d>> /\ UNCHANGED <<tables, current, pinned>>
  BY DEF InstallCompactionResults, memory
<1>2. comp # <<>> /\ IsCompaction(comp[1]) BY WorkingShape DEF InstallCompactionResults
<1>3. CompOK(comp[1], DOMAIN tables) BY <1>2 DEF FilesThere
<1>4. d.version = comp[1].version /\ d.outs = comp[1].outs BY <1>2, PhaseSet
<1>5. e.add = {<<l, f>> : f \in comp[1].outs} BY DEF VersionEdit
<1> HIDE DEF e, d, l
<1>6. IsFiniteSet(comp[1].outs) /\ \A f \in comp[1].outs : f.number \in DOMAIN tables
  BY <1>3 DEF CompOK
<1>7. EditOK(e, DOMAIN tables) BY <1>5, <1>6, PlacedFiles
<1>8. CompOK(d, DOMAIN tables) BY <1>3, <1>4 DEF CompOK
<1>9. CompOK(comp'[1], DOMAIN tables') BY <1>1, <1>8
<1> QED BY <1>1, <1>7, <1>9, LogKeepsFiles

(* A compaction makes an output file.                                       *)
LEMMA OutputKeepsFiles ==
  ASSUME ShapesOK, FilesThere, FinishCompactionOutputFile PROVE FilesThere'
<1>1. comp # <<>> /\ IsCompaction(comp[1]) BY WorkingShape DEF FinishCompactionOutputFile
<1>2. PICK S : /\ tables' = [n \in DOMAIN tables \cup {nextFile} |->
                               IF n = nextFile THEN S ELSE tables[n]]
               /\ comp' = <<[comp[1] EXCEPT !.todo = @ \ {S},
                                            !.outs = @ \cup {FileMetaData(nextFile, S)}]>>
  BY DEF FinishCompactionOutputFile
<1> DEFINE f == FileMetaData(nextFile, S)
           d == WithOutput(comp[1], S, f)
<1>3. f.number = nextFile BY DEF FileMetaData
<1>4. comp' = <<d>> BY <1>2 DEF WithOutput
<1> HIDE DEF f
<1>5. d.version = comp[1].version /\ d.outs = comp[1].outs \cup {f}
  BY <1>1, OutputAdded
<1>6. DOMAIN tables' = DOMAIN tables \cup {nextFile} BY <1>2
<1>7. CompOK(comp[1], DOMAIN tables') BY <1>1, <1>6, MoreFiles DEF FilesThere
<1> HIDE DEF d
<1>8. IsFiniteSet(d.outs) BY <1>5, <1>7, FS_AddElement DEF CompOK
<1>9. \A g \in d.outs : g.number \in DOMAIN tables' BY <1>3, <1>5, <1>6, <1>7 DEF CompOK
<1>10. CompOK(d, DOMAIN tables') BY <1>5, <1>7, <1>8, <1>9 DEF CompOK
<1>11. CompOK(comp'[1], DOMAIN tables') BY <1>4, <1>10
<1>12. UNCHANGED <<manifest, current, pinned, edit>> BY DEF FinishCompactionOutputFile
<1>13. DOMAIN tables \subseteq DOMAIN tables' BY <1>6
<1> QED BY <1>11, <1>12, <1>13, SameManifestKeepsFiles

(* A flush is installed, also inside a compaction: its outputs and inputs   *)
(* stay.                                                                    *)
LEMMA FlushKeepsFiles ==
  ASSUME ShapesOK, FilesThere, ManifestFollows', FlushInstalled PROVE FilesThere'
<1> DEFINE v == BuilderSaveTo(current, edit[1])
           vs == {v} \cup pinned \cup {c.version : c \in Range(comp)}
           outs == UNION {c.outs : c \in Range(comp)}
<1>1. /\ edit # <<>> /\ up' = "open" /\ SyncManifest /\ edit' = <<>>
      /\ current' = v /\ UNCHANGED <<bgError, pinned, comp>>
      /\ DeleteObsoleteFiles(vs, edit[1].log, outs)
  BY DEF FlushInstalled, Flushing
<1>2. /\ \A u \in vs : VersionOK(u, DOMAIN tables) => VersionOK(u, DOMAIN tables')
      /\ \A f \in outs : f.number \in DOMAIN tables => f.number \in DOMAIN tables'
      /\ bgError => tables' = tables
  BY <1>1, DeletesOnlyObsolete
<1>3. {current'} \cup pinned \subseteq vs BY <1>1
<1>4. ASSUME comp' # <<>> PROVE CompOK(comp'[1], DOMAIN tables')
  <2>1. comp = <<comp[1]>> /\ comp # <<>> BY <1>1, <1>4, OneOrNone DEF ShapesOK
  <2>2. comp[1] \in Range(comp) BY <2>1 DEF Range
  <2>3. CompOK(comp[1], DOMAIN tables) BY <2>1 DEF FilesThere
  <2>4. comp[1].version \in vs /\ \A f \in comp[1].outs : f \in outs BY <2>2
  <2> HIDE DEF vs, outs
  <2>5. CompOK(comp[1], DOMAIN tables') BY <1>2, <2>3, <2>4 DEF CompOK
  <2> QED BY <1>1, <2>5
<1> HIDE DEF vs, outs
<1> QED BY <1>1, <1>2, <1>3, <1>4, InstallKeepsFiles

(* A compaction or a move is installed.                                     *)
LEMMA CompactionKeepsFiles ==
  ASSUME ShapesOK, NotOpenIsQuiet, FilesThere, ManifestFollows', CompactionInstalled PROVE FilesThere'
<1> DEFINE v == BuilderSaveTo(current, edit[1])
           vs == {v} \cup pinned
<1>1. /\ edit # <<>> /\ SyncManifest /\ edit' = <<>> /\ comp' = <<>>
      /\ current' = v /\ UNCHANGED <<bgError, pinned>>
  BY DEF CompactionInstalled, Installing
<1>2. up' = "open" BY BackgroundIsOpen DEF BackgroundStep
<1>3. /\ \A u \in vs : VersionOK(u, DOMAIN tables) => VersionOK(u, DOMAIN tables')
      /\ bgError => tables' = tables
  <2>1. tables' = tables \/ DeleteObsoleteFiles(vs, edit[1].log, {}) BY DEF CompactionInstalled
  <2> HIDE DEF vs
  <2> QED BY <2>1, DeletesOnlyObsolete
<1>4. {current'} \cup pinned \subseteq vs BY <1>1
<1> HIDE DEF vs
<1> QED BY <1>1, <1>2, <1>3, <1>4, InstallKeepsFiles

(* A crash leaves any number of the unsynced records in the manifest.       *)
LEMMA CrashKeepsFiles ==
  ASSUME ShapesOK, FilesThere, Crash PROVE FilesThere'
<1>1. /\ current' = NoFiles /\ pinned' = {} /\ edit' = <<>> /\ comp' = <<>> /\ tables' = tables
  BY DEF Crash
<1>2. PICK t \in 0 .. Len(manifest.tail) :
        manifest' = [base |-> AppliedAll(manifest.base, SubSeq(manifest.tail, 1, t)), tail |-> <<>>]
  BY DEF Crash
<1> DEFINE es == SubSeq(manifest.tail, 1, t)
<1>3. manifest.tail \in Seq(Range(manifest.tail)) BY DEF ShapesOK, IsSeq
<1>4. t \in Nat /\ DOMAIN es = 1 .. t /\ \A i \in 1 .. t : es[i] = manifest.tail[i]
  BY <1>3
<1>5. \A i \in 1 .. t : EditOK(es[i], DOMAIN tables) BY <1>3, <1>4 DEF FilesThere
<1>6. VersionOK(manifest.base.files, DOMAIN tables) BY DEF FilesThere
<1>7. manifest'.base = AppliedAll(manifest.base, es) /\ manifest'.tail = <<>> BY <1>2
<1> HIDE DEF es
<1>8. VersionOK(manifest'.base.files, DOMAIN tables) BY <1>4, <1>5, <1>6, <1>7, AppliedAllKeeps
<1> QED BY <1>1, <1>7, <1>8, NoFilesOK, EmptyIsSeq DEF FilesThere

(* Open replays the logs.                                                   *)
LEMMA OpenKeepsFiles ==
  ASSUME ShapesOK, NotOpenIsQuiet, FilesThere, Open PROVE FilesThere'
<1> DEFINE r == Recovered
           e == [log |-> r.next, next |-> r.next + 1, seq |-> r.seq, del |-> {}, add |-> r.add]
<1>1. /\ tables' = r.tables /\ current' = manifest.base.files /\ edit' = <<e>>
      /\ UNCHANGED <<manifest, pinned, comp>> /\ up = "down"
  BY DEF Open
<1>2. RecoveryOK(r) BY RecoveredOK DEF ShapesOK
<1>3. e.add = r.add OBVIOUS
<1> HIDE DEF r, e
<1>4. DOMAIN tables \subseteq DOMAIN tables' /\ EditOK(e, DOMAIN tables')
  BY <1>1, <1>2, <1>3 DEF RecoveryOK, EditOK
<1>5. comp = <<>> /\ pinned = {} /\ manifest.tail = <<>> BY <1>1 DEF NotOpenIsQuiet
<1>6. VersionOK(manifest.base.files, DOMAIN tables') BY <1>4, MoreFiles DEF FilesThere
<1>7. edit'[1] = e BY <1>1
<1> QED BY <1>1, <1>4, <1>5, <1>6, <1>7, EmptyIsSeq DEF FilesThere

(* Open writes the new manifest and deletes what is obsolete.               *)
LEMMA OpenInstalledKeepsFiles ==
  ASSUME ShapesOK, NotOpenIsQuiet, FilesThere, ManifestFollows', OpenInstalled PROVE FilesThere'
<1> DEFINE v == BuilderSaveTo(current, edit[1])
<1>1. /\ current' = v /\ DeleteObsoleteFiles({v}, edit[1].log, {}) /\ edit' = <<>>
      /\ up = "opening" /\ up' = "open" /\ UNCHANGED <<pinned, bgError, comp>>
      /\ manifest' = [base |-> Applied(manifest.base, edit[1]), tail |-> <<>>]
  BY DEF OpenInstalled
<1>2. edit # <<>> /\ comp = <<>> /\ pinned = {} /\ bgError = FALSE BY <1>1 DEF NotOpenIsQuiet
<1>3. VersionOK(v, DOMAIN tables) BY <1>2, SaveToKeeps DEF FilesThere
<1>4. VersionOK(v, DOMAIN tables') BY <1>1, <1>3, DeletesOnlyObsolete
<1>5. manifest'.base.files = current' /\ manifest'.tail = <<>> BY <1>1, <1>2 DEF ManifestFollows
<1> QED BY <1>1, <1>2, <1>4, <1>5, EmptyIsSeq DEF FilesThere

(* Every step keeps FilesThere.                                             *)
LEMMA FilesKept ==
  ASSUME ShapesOK, NotOpenIsQuiet, FilesThere, ManifestFollows', Next PROVE FilesThere'
<1>1. ASSUME NEW w \in Writers, WriterStep(w) PROVE FilesThere'
  BY <1>1, WriterChanges, SameManifestKeepsFiles
<1>2. CASE ReaderStep
  <2>1. UNCHANGED <<tables, manifest, current, edit, comp>> /\ pinned' \subseteq pinned \cup {current}
    BY <1>2, ReaderKeepsCalls DEF disk, memory
  <2> QED BY <2>1, SameManifestKeepsFiles
<1>3. CASE WriteLevel0Table BY <1>3, FlushLogKeepsFiles
<1>4. CASE FlushInstalled BY <1>4, FlushKeepsFiles
<1>5. CASE FlushFails
  <2>1. UNCHANGED <<tables, manifest, current, pinned, comp>> /\ edit' = <<>>
    BY <1>5 DEF FlushFails, disk
  <2> QED BY <2>1, SameManifestKeepsFiles
<1>6. CASE BackgroundCallStops
  <2>1. UNCHANGED <<tables, manifest, current, pinned, comp, edit>>
    BY <1>6 DEF BackgroundCallStops, disk, memory
  <2> QED BY <2>1, SameManifestKeepsFiles
<1>7. CASE StartCompaction
  <2>1. UNCHANGED <<tables, manifest, current, pinned, edit>>
    BY <1>7 DEF StartCompaction, disk, memory
  <2>2. PICK c, T : comp' = <<[phase |-> "work", pick |-> c, version |-> current,
                               todo |-> T, outs |-> {}]>>
    BY <1>7 DEF StartCompaction
  <2> DEFINE d == [phase |-> "work", pick |-> c, version |-> current, todo |-> T, outs |-> {}]
  <2>3. CompOK(d, DOMAIN tables) BY FS_EmptySet DEF CompOK, FilesThere
  <2>4. comp' = <<d>> BY <2>2
  <2> HIDE DEF d
  <2>5. CompOK(comp'[1], DOMAIN tables') BY <2>1, <2>3, <2>4
  <2> QED BY <2>1, <2>5, SameManifestKeepsFiles
<1>8. CASE MoveFile BY <1>8, MoveKeepsFiles
<1>9. CASE FinishCompactionOutputFile BY <1>9, OutputKeepsFiles
<1>10. CASE InstallCompactionResults BY <1>10, ResultsKeepFiles
<1>11. CASE CompactionInstalled BY <1>11, CompactionKeepsFiles
<1>12. CASE CompactionFails
  <2>1. UNCHANGED <<tables, manifest, current, pinned>> /\ edit' = <<>> /\ comp' = <<>>
    BY <1>12 DEF CompactionFails, disk, memory
  <2> QED BY <2>1, SameManifestKeepsFiles
<1>13. CASE Crash BY <1>13, CrashKeepsFiles
<1>14. CASE Open BY <1>14, OpenKeepsFiles
<1>15. CASE OpenInstalled BY <1>15, OpenInstalledKeepsFiles
<1> QED BY <1>1, <1>2, <1>3, <1>4, <1>5, <1>6, <1>7, <1>8, <1>9, <1>10, <1>11, <1>12, <1>13,
           <1>14, <1>15 DEF Next, BackgroundStep

(***************************************************************************)
(* The schedule.                                                            *)
(***************************************************************************)

(* Every step keeps DueIsScheduled.                                         *)
LEMMA DueKept ==
  ASSUME ShapesOK, NotOpenIsQuiet, DueIsScheduled, Next PROVE DueIsScheduled'
<1>1. ASSUME NEW w \in Writers, WriterStep(w) PROVE DueIsScheduled'
  BY <1>1, WriterChanges, WriterSchedules DEF DueIsScheduled, ShapesOK
<1>2. CASE ReaderStep
  <2>1. /\ UNCHANGED <<up, imm, current, bgError, edit, comp>>
        /\ scheduled' = scheduled \/ scheduled' = TRUE
    BY <1>2, ReaderKeepsCalls DEF memory
  <2> QED BY <2>1 DEF DueIsScheduled
<1>3. CASE WriteLevel0Table \/ MoveFile \/ InstallCompactionResults
  <2>1. UNCHANGED scheduled BY <1>3, LoggedRecord
  <2>2. scheduled
    <3>1. Working => comp # <<>> BY DEF Working, Range
    <3> QED BY <1>3, <3>1 DEF WriteLevel0Table, MoveFile, InstallCompactionResults, MayFlush,
               MayCompact, DueIsScheduled
  <2> QED BY <2>1, <2>2 DEF DueIsScheduled
<1>4. CASE FlushInstalled
  <2>1. UNCHANGED <<up, bgError, comp>> /\ imm' = <<>> /\ edit' = <<>> BY <1>4 DEF FlushInstalled
  <2>2. IF comp = <<>> THEN scheduled' \in MaybeScheduleCompaction(bgError, current', <<>>)
        ELSE UNCHANGED scheduled
    BY <1>4 DEF FlushInstalled
  <2>3. CASE comp = <<>> BY <2>1, <2>2, <2>3, Scheduling DEF DueIsScheduled
  <2>4. CASE comp # <<>> BY <2>1, <2>2, <2>4 DEF DueIsScheduled
  <2> QED BY <2>3, <2>4
<1>5. CASE FlushFails BY <1>5 DEF FlushFails, DueIsScheduled
<1>6. CASE BackgroundCallStops BY <1>6 DEF BackgroundCallStops, DueIsScheduled, memory
<1>7. CASE StartCompaction BY <1>7 DEF StartCompaction, MayCompact, DueIsScheduled, memory
<1>8. CASE FinishCompactionOutputFile
  <2>1. UNCHANGED <<up, imm, current, bgError, scheduled, edit>>
    BY <1>8 DEF FinishCompactionOutputFile
  <2>2. comp # <<>> BY <1>8 DEF FinishCompactionOutputFile, Working, Range
  <2> QED BY <2>1, <2>2 DEF DueIsScheduled
<1>9. CASE CompactionInstalled
  <2>1. /\ UNCHANGED <<up, bgError, imm>> /\ comp' = <<>> /\ edit' = <<>>
        /\ scheduled' \in MaybeScheduleCompaction(bgError, current', imm)
    BY <1>9 DEF CompactionInstalled
  <2> QED BY <2>1, Scheduling DEF DueIsScheduled
<1>10. CASE CompactionFails BY <1>10 DEF CompactionFails, DueIsScheduled
<1>11. CASE Crash
  <2>1. up' = "down" /\ comp' = <<>> BY <1>11 DEF Crash
  <2> QED BY <2>1 DEF DueIsScheduled
<1>12. CASE Open
  <2>1. up' = "opening" /\ UNCHANGED <<comp, scheduled>> BY <1>12 DEF Open
  <2> QED BY <2>1 DEF DueIsScheduled
<1>13. CASE OpenInstalled
  <2>1. /\ UNCHANGED <<bgError, imm, comp>> /\ up = "opening" /\ edit' = <<>>
        /\ scheduled' \in MaybeScheduleCompaction(FALSE, current', <<>>)
    BY <1>13 DEF OpenInstalled
  <2>2. imm = <<>> /\ comp = <<>> BY <2>1 DEF NotOpenIsQuiet
  <2> QED BY <2>1, <2>2, Scheduling DEF DueIsScheduled
<1> QED BY <1>1, <1>2, <1>3, <1>4, <1>5, <1>6, <1>7, <1>8, <1>9, <1>10, <1>11, <1>12, <1>13
        DEF Next, BackgroundStep

(* A writer that must wait in MakeRoomForWrite waits for work that is       *)
(* scheduled: writes stop at no fewer level-0 files than a compaction       *)
(* starts at.                                                               *)
LEMMA MustWaitIsScheduled ==
  ASSUME up = "open", ~bgError, MustWait, FilesThere, DueIsScheduled PROVE scheduled
<1>1. 0 \in Level BY LevelAssumption DEF Level
<1>2. IsFiniteSet(current[0]) BY <1>1 DEF FilesThere, VersionOK
<1>3. Cardinality(current[0]) \in Nat BY <1>2, FS_CardinalityType
<1>4. /\ L0_CompactionTrigger \in Nat /\ L0_StopWritesTrigger \in Nat
      /\ L0_StopWritesTrigger >= L0_CompactionTrigger
  BY LevelDBAssumption
<1> QED BY <1>3, <1>4 DEF MustWait, DueIsScheduled

(* The switch of memtables schedules the flush.                             *)
LEMMA SwitchSchedules ==
  ASSUME NEW w, SwitchMemTable(w) PROVE scheduled' /\ ~bgError'
<1>1. /\ UNCHANGED bgError /\ ~bgError
      /\ scheduled' \in MaybeScheduleCompaction(bgError, current, <<mem>>)
  BY DEF SwitchMemTable
<1>2. <<mem>> # <<>> OBVIOUS
<1>3. scheduled' \in BOOLEAN /\ scheduled' BY <1>1, <1>2, Scheduling
<1> QED BY <1>1, <1>3

(* Every step of a writer keeps Awake,                                      *)
LEMMA WriterKeepsAwake ==
  ASSUME QueueOK, ShapesOK, NotOpenIsQuiet, FilesThere, DueIsScheduled, Awake,
         NEW w \in Writers, WriterStep(w)
  PROVE  Awake'
<1>0. pc[w] # "idle" => up = "open" BY DEF NotOpenIsQuiet
<1>t. pc \in [Writers -> PCs] BY DEF QueueOK, PCs
<1> SUFFICES ASSUME NEW u \in Writers, pc'[u] \in Waits PROVE scheduled' /\ ~bgError' BY DEF Awake
<1>a. pc[u] \in Waits => scheduled /\ ~bgError BY DEF Awake
<1>1. ASSUME NEW j \in budget.jobs, Write(w, j) PROVE scheduled' /\ ~bgError'
  <2>1. /\ pc' = [pc EXCEPT ![w] = IF queue = <<>> THEN "ready" ELSE "sleep"]
        /\ UNCHANGED <<scheduled, bgError>>
    BY <1>1 DEF Write, background
  <2>2. pc[u] \in Waits BY <1>t, <2>1 DEF Waits
  <2> QED BY <1>a, <2>1, <2>2
<1>2. CASE MakeRoomFails(w)
  <2>1. PopGroup(pc, 1, FALSE) /\ UNCHANGED <<scheduled, bgError>> BY <1>2 DEF MakeRoomFails, background
  <2> QED BY <1>a, <2>1, PopWaits
<1>3. CASE MakeRoomWaits(w)
  <2>1. /\ pc[w] = "ready" /\ ~bgError /\ MustWait /\ UNCHANGED <<scheduled, bgError>>
    BY <1>3 DEF MakeRoomWaits, background
  <2> QED BY <1>0, <2>1, MustWaitIsScheduled
<1>4. CASE SwitchMemTable(w)
  BY <1>4, SwitchSchedules
<1>5. CASE AddRecord(w)
  <2>1. pc' = [pc EXCEPT ![w] = "logged"] /\ UNCHANGED <<scheduled, bgError>>
    BY <1>5 DEF AddRecord, background
  <2>2. pc[u] \in Waits BY <1>t, <2>1 DEF Waits
  <2> QED BY <1>a, <2>1, <2>2
<1>6. CASE AddRecordFails(w)
  <2>1. (\E n : PopGroup(pc, n, FALSE)) /\ UNCHANGED <<scheduled, bgError>>
    BY <1>6 DEF AddRecordFails, background
  <2> QED BY <1>a, <2>1, PopWaits
<1>7. CASE SyncFails(w)
  <2> DEFINE p == SignalAll(pc, TRUE)
  <2>1. PopGroup(p, group, FALSE) BY <1>7 DEF SyncFails
  <2>2. p[u] \in Waits => FALSE BY SignalWaits
  <2> HIDE DEF p
  <2> QED BY <2>1, <2>2, PopWaits
<1>8. CASE SyncAndInsert(w)
  <2> DEFINE fl == imm # <<>> /\ ~bgError
  <2>1. pc[w] = "logged" /\ PopGroup(pc, group, fl) /\ UNCHANGED <<scheduled, bgError>>
    BY <1>8 DEF SyncAndInsert, background
  <2>2. fl => scheduled /\ ~bgError BY <1>0, <2>1 DEF DueIsScheduled
  <2> HIDE DEF fl
  <2>3. fl \/ pc[u] \in Waits BY <2>1, PopWaits
  <2> QED BY <1>a, <2>1, <2>2, <2>3
<1> QED BY <1>1, <1>2, <1>3, <1>4, <1>5, <1>6, <1>7, <1>8 DEF WriterStep

(* ... and so does every step of the database.                              *)
LEMMA AwakeKept ==
  ASSUME QueueOK, ShapesOK, NotOpenIsQuiet, FilesThere, DueIsScheduled, Awake, Next PROVE Awake'
<1>1. ASSUME NEW w \in Writers, WriterStep(w) PROVE Awake' BY <1>1, WriterKeepsAwake
<1>2. CASE ReaderStep
  <2>1. UNCHANGED <<bgError, pc>> /\ (scheduled' = scheduled \/ scheduled' = TRUE)
    BY <1>2, ReaderKeepsCalls DEF calls
  <2> QED BY <2>1 DEF Awake
<1>3. CASE WriteLevel0Table \/ MoveFile \/ InstallCompactionResults
  <2>1. UNCHANGED <<pc, scheduled, bgError>>
    BY <1>3 DEF WriteLevel0Table, MoveFile, InstallCompactionResults, calls
  <2> QED BY <2>1 DEF Awake
<1>4. CASE FlushInstalled \/ FlushFails \/ BackgroundCallStops \/ CompactionFails
  <2>1. pc' = SignalAll(pc, TRUE)
    BY <1>4 DEF FlushInstalled, FlushFails, BackgroundCallStops, CompactionFails
  <2> QED BY <2>1, SignalWaits DEF Awake
<1>5. CASE StartCompaction BY <1>5 DEF StartCompaction, calls, Awake
<1>6. CASE FinishCompactionOutputFile BY <1>6 DEF FinishCompactionOutputFile, calls, Awake
<1>7. CASE CompactionInstalled
  <2>1. /\ pc' = SignalAll(pc, bgError \/ imm = <<>>) /\ UNCHANGED bgError
        /\ scheduled' \in MaybeScheduleCompaction(bgError, current', imm)
    BY <1>7 DEF CompactionInstalled
  <2> SUFFICES ASSUME NEW u \in Writers, pc'[u] \in Waits PROVE scheduled' /\ ~bgError' BY DEF Awake
  <2>2. ~bgError /\ imm # <<>> BY <2>1, SignalWaits
  <2> QED BY <2>1, <2>2, Scheduling
<1>8. CASE Crash
  <2>1. pc' = [w \in Writers |-> "idle"] BY <1>8 DEF Crash
  <2> QED BY <2>1 DEF Awake, Waits
<1>9. CASE Open \/ OpenInstalled
  <2>1. up # "open" /\ UNCHANGED pc BY <1>9 DEF Open, OpenInstalled, calls
  <2>2. pc = [w \in Writers |-> "idle"] BY <2>1 DEF NotOpenIsQuiet
  <2> QED BY <2>1, <2>2 DEF Awake, Waits
<1> QED BY <1>1, <1>2, <1>3, <1>4, <1>5, <1>6, <1>7, <1>8, <1>9 DEF Next, BackgroundStep

(* Every step keeps WorkIsScheduled.                                        *)
LEMMA WorkKept ==
  ASSUME QueueOK, ShapesOK, NotOpenIsQuiet, FilesThere, WorkIsScheduled, Next
  PROVE  WorkIsScheduled'
<1>1. DueIsScheduled /\ Awake BY DEF WorkIsScheduled
<1>2. DueIsScheduled' BY <1>1, DueKept
<1>3. Awake' BY <1>1, AwakeKept
<1> QED BY <1>2, <1>3 DEF WorkIsScheduled

(***************************************************************************)
(* The theorems.                                                            *)
(***************************************************************************)

(* A new database satisfies the invariant.                                  *)
LEMMA InvInitial == Init => IInv
<1> SUFFICES ASSUME Init PROVE IInv OBVIOUS
<1>1. QueueOK BY DEF Init, Closed, QueueOK, Waiters
<1>2. ShapesOK
  <2>1. manifest.tail = <<>> /\ IsManifest(manifest) BY DEF Init, NewDB, IsManifest
  <2>2. DOMAIN logs = {} BY DEF Init, NewDB
  <2>3. IsFiniteSet(DOMAIN logs) BY <2>2, FS_EmptySet
  <2> QED BY <2>1, <2>3, EmptyIsSeq, OptionalNone DEF Init, Closed, ShapesOK
<1>3. NotOpenIsQuiet
  <2>1. manifest.tail = <<>> BY DEF Init, NewDB
  <2> QED BY <2>1 DEF Init, Closed, NotOpenIsQuiet
<1>4. ManifestFollows BY DEF Init, Closed, ManifestFollows
<1>5. FilesThere
  <2>1. manifest.tail = <<>> /\ manifest.base.files = NoFiles BY DEF Init, NewDB
  <2>2. current = NoFiles /\ pinned = {} /\ edit = <<>> /\ comp = <<>> BY DEF Init, Closed
  <2> QED BY <2>1, <2>2, NoFilesOK, EmptyIsSeq DEF FilesThere
<1>6. WorkIsScheduled
  BY DEF Init, Closed, WorkIsScheduled, DueIsScheduled, Awake, Waits
<1> QED BY <1>1, <1>2, <1>3, <1>4, <1>5, <1>6 DEF IInv

(* Every step keeps the invariant.                                          *)
LEMMA InvKept == IInv /\ [Next]_vars => IInv'
<1> SUFFICES ASSUME IInv, [Next]_vars PROVE IInv' OBVIOUS
<1>0. QueueOK /\ ShapesOK /\ NotOpenIsQuiet /\ ManifestFollows /\ FilesThere /\ WorkIsScheduled
  BY DEF IInv
<1>1. CASE Next
  <2>1. QueueOK' BY <1>0, <1>1, QueueKept
  <2>2. ShapesOK' BY <1>0, <1>1, ShapesKept
  <2>3. NotOpenIsQuiet' BY <1>0, <1>1, QuietKept
  <2>4. ManifestFollows' BY <1>0, <1>1, ManifestKept
  <2>5. FilesThere' BY <1>0, <1>1, <2>4, FilesKept
  <2>6. WorkIsScheduled' BY <1>0, <1>1, WorkKept
  <2> QED BY <2>1, <2>2, <2>3, <2>4, <2>5, <2>6 DEF IInv
<1>2. CASE UNCHANGED vars
  <2>1. UNCHANGED <<logs, tables, manifest, up, imm, current, pinned, bgError, scheduled, edit,
                    comp, queue, pc, group>>
    BY <1>2 DEF vars
  <2>2. QueueOK' BY <1>0, <2>1, SameQueue
  <2>3. ShapesOK' BY <1>0, <2>1 DEF ShapesOK
  <2>4. NotOpenIsQuiet' BY <1>0, <2>1 DEF NotOpenIsQuiet
  <2>5. ManifestFollows' BY <1>0, <2>1 DEF ManifestFollows
  <2>6. FilesThere' BY <1>0, <2>1 DEF FilesThere
  <2>7. WorkIsScheduled' BY <1>0, <2>1 DEF WorkIsScheduled, DueIsScheduled, Awake
  <2> QED BY <2>2, <2>3, <2>4, <2>5, <2>6, <2>7 DEF IInv
<1> QED BY <1>1, <1>2

(* The invariant holds of every behaviour of the database.                  *)
THEOREM LevelDBInvariance == Spec => []IInv
BY InvInitial, InvKept, PTL DEF Spec

(* From the queue and the schedule: no wakeup is lost.                      *)
LEMMA AwakeFollows == IInv => NoLostWakeup
<1> SUFFICES ASSUME IInv PROVE NoLostWakeup OBVIOUS
<1>1. queue # <<>> => pc[Head(queue)] # "sleep"
  <2> SUFFICES ASSUME queue # <<>> PROVE pc[Head(queue)] # "sleep" OBVIOUS
  <2>1. queue \in Seq(Writers) BY DEF IInv, QueueOK
  <2>2. 1 \in 1 .. Len(queue) /\ Head(queue) = queue[1] BY <2>1
  <2>3. pc[queue[1]] \in {"ready", "bgwait", "logged"} BY <2>2 DEF IInv, QueueOK
  <2> QED BY <2>2, <2>3
<1>2. \A w \in Writers : pc[w] \in {"bgwait", "flushwait"} => scheduled /\ ~bgError
  BY DEF IInv, WorkIsScheduled, Awake, Waits
<1> QED BY <1>1, <1>2 DEF NoLostWakeup

(* Write, MakeRoomForWrite, TEST_CompactMemTable and the background thread  *)
(* never lose a wakeup, whatever number of writers, files and errors there  *)
(* is.                                                                      *)
THEOREM NoWakeupIsEverLost == Spec => []NoLostWakeup
BY LevelDBInvariance, AwakeFollows, PTL

(* A file of such a version is on disk.                                     *)
LEMMA FilesOnDisk ==
  ASSUME NEW v, NEW on, VersionOK(v, on), NEW f \in FilesOf(v) PROVE f.number \in on
BY DEF VersionOK, FilesOf

(* From FilesThere: live files exist.                                       *)
LEMMA LiveFilesFollow == IInv => LiveFilesExist
<1> SUFFICES ASSUME IInv PROVE LiveFilesExist OBVIOUS
<1> DEFINE versions == {current} \cup pinned \cup {c.version : c \in Range(comp)}
           outputs == UNION {c.outs : c \in Range(comp)}
<1>1. \A c \in Range(comp) : CompOK(c, DOMAIN tables)
  <2> SUFFICES ASSUME NEW c \in Range(comp) PROVE CompOK(c, DOMAIN tables) OBVIOUS
  <2>1. comp # <<>> BY DEF Range
  <2>2. comp = <<comp[1]>> BY <2>1, OneOrNone DEF IInv, ShapesOK
  <2>3. DOMAIN comp = {1} BY <2>2
  <2>4. c = comp[1] BY <2>3 DEF Range
  <2> QED BY <2>1, <2>4 DEF IInv, FilesThere
<1>2. \A v \in versions : VersionOK(v, DOMAIN tables)
  BY <1>1 DEF IInv, FilesThere, CompOK
<1>3. \A f \in outputs : f.number \in DOMAIN tables BY <1>1 DEF CompOK
<1> HIDE DEF versions, outputs
<1>4. \A f \in (UNION {FilesOf(v) : v \in versions}) \cup outputs : f.number \in DOMAIN tables
  <2> SUFFICES ASSUME NEW f \in UNION {FilesOf(v) : v \in versions}
               PROVE  f.number \in DOMAIN tables
    BY <1>3
  <2>1. PICK v \in versions : f \in FilesOf(v) OBVIOUS
  <2> QED BY <1>2, <2>1, FilesOnDisk
<1> QED BY <1>4 DEF LiveFilesExist, versions, outputs

(* DeleteObsoleteFiles never removes a file of a version somebody reads or  *)
(* merges from, nor an output under way.                                    *)
THEOREM LiveFilesAlwaysExist == Spec => []LiveFilesExist
BY LevelDBInvariance, LiveFilesFollow, PTL

(* From FilesThere: nothing the manifest names is missing.                  *)
LEMMA OpensFollows == IInv => OpensAfterCrash
<1> SUFFICES ASSUME IInv PROVE MissingFiles = {} BY DEF OpensAfterCrash
<1>1. VersionOK(manifest.base.files, DOMAIN tables) BY DEF IInv, FilesThere
<1>2. \A f \in FilesOf(manifest.base.files) : f.number \in DOMAIN tables BY <1>1, FilesOnDisk
<1> QED BY <1>2 DEF MissingFiles

(* Whatever instant a crash comes at and whatever records it leaves in the  *)
(* manifest, VersionSet::Recover finds every file.                          *)
THEOREM AlwaysOpensAfterCrash == Spec => []OpensAfterCrash
BY LevelDBInvariance, OpensFollows, PTL

(***************************************************************************)
(* The data: logs, tables and memtables hold entries.                       *)
(***************************************************************************)

(* The logs, the tables, the memtables and the history hold entries.         *)
DataOK ==
  /\ LogsTyped /\ TablesOK(tables)
  /\ Contents(mem) /\ (imm # <<>> => Contents(imm[1]))
  /\ hist \subseteq Entry /\ promised \subseteq Entry

(* A log with one record more,                                               *)
LEMMA LogGrows ==
  ASSUME NEW l, LogOK(l), NEW B, Contents(B)
  PROVE  LogOK([l EXCEPT !.recs = Append(@, B)])
<1> DEFINE r == Append(l.recs, B)
           k == [l EXCEPT !.recs = r]
<1>1. /\ l = [recs |-> l.recs, synced |-> l.synced] /\ IsSeq(l.recs) /\ l.synced \in 0 .. Len(l.recs)
      /\ \A i \in 1 .. Len(l.recs) : Contents(l.recs[i])
  BY DEF LogOK
<1>2. k = [recs |-> r, synced |-> l.synced] BY <1>1
<1>3. /\ IsSeq(r) /\ Len(l.recs) \in Nat /\ Len(r) = Len(l.recs) + 1
      /\ \A i \in 1 .. Len(l.recs) + 1 : r[i] = IF i = Len(l.recs) + 1 THEN B ELSE l.recs[i]
  BY <1>1, AppendIsSeq
<1> HIDE DEF r
<1>4. \A i \in 1 .. Len(r) : Contents(r[i])
  <2> SUFFICES ASSUME NEW i \in 1 .. Len(l.recs) + 1 PROVE Contents(r[i]) BY <1>3
  <2>1. CASE i = Len(l.recs) + 1 BY <1>3, <2>1
  <2>2. CASE i # Len(l.recs) + 1
    <3>1. i \in 1 .. Len(l.recs) BY <1>3, <2>2
    <3> QED BY <1>1, <1>3, <2>2, <3>1
  <2> QED BY <2>1, <2>2
<1>5. l.synced \in 0 .. Len(r) BY <1>1, <1>3
<1> HIDE DEF k
<1>6. k.recs = r /\ k.synced = l.synced BY <1>2
<1>7. LogOK(k) BY <1>2, <1>3, <1>4, <1>5, <1>6 DEF LogOK
<1> QED BY <1>7 DEF k, r

(* ... one that is synced,                                                   *)
LEMMA LogSynced ==
  ASSUME NEW l, LogOK(l)
  PROVE  LogOK([l EXCEPT !.synced = Len(l.recs)])
<1> DEFINE k == [l EXCEPT !.synced = Len(l.recs)]
<1>1. /\ l = [recs |-> l.recs, synced |-> l.synced] /\ IsSeq(l.recs)
      /\ \A i \in 1 .. Len(l.recs) : Contents(l.recs[i])
  BY DEF LogOK
<1>2. k = [recs |-> l.recs, synced |-> Len(l.recs)] BY <1>1
<1>3. Len(l.recs) \in Nat BY <1>1, AppendIsSeq
<1>4. Len(l.recs) \in 0 .. Len(l.recs) BY <1>3
<1> HIDE DEF k
<1>5. k.recs = l.recs /\ k.synced = Len(l.recs) BY <1>2
<1>6. LogOK(k) BY <1>1, <1>2, <1>4, <1>5 DEF LogOK
<1> QED BY <1>6 DEF k

(* ... one read back after a crash,                                          *)
LEMMA LogReadBack ==
  ASSUME NEW l, LogOK(l), NEW r \in RecordsLeft(l)
  PROVE  LogOK([recs |-> r, synced |-> Len(r)])
<1> DEFINE k == [recs |-> r, synced |-> Len(r)]
<1>1. IsSeq(l.recs) /\ \A i \in 1 .. Len(l.recs) : Contents(l.recs[i]) BY DEF LogOK
<1>2. \E c : r = RecordsRead(l.recs, c) BY DEF RecordsLeft
<1>3. PICK c : r = RecordsRead(l.recs, c) BY <1>2
<1>4. IsSeq(r) /\ \A i \in 1 .. Len(r) : Contents(r[i]) BY <1>1, <1>3, ReadBack
<1>5. Len(r) \in Nat BY <1>4, AppendIsSeq
<1>6. Len(r) \in 0 .. Len(r) BY <1>5
<1>7. k = [recs |-> r, synced |-> Len(r)] /\ k.recs = r /\ k.synced = Len(r) OBVIOUS
<1> HIDE DEF k
<1>8. LogOK(k) BY <1>4, <1>6, <1>7 DEF LogOK
<1> QED BY <1>8 DEF k

(* ... and a new one.                                                        *)
LEMMA NewLog == LogOK([recs |-> <<>>, synced |-> 0])
<1> DEFINE k == [recs |-> <<>>, synced |-> 0]
<1>1. k = [recs |-> k.recs, synced |-> k.synced] /\ k.recs = <<>> /\ k.synced = 0 OBVIOUS
<1>2. Len(<<>>) = 0 /\ IsSeq(<<>>) BY EmptyIsSeq
<1> HIDE DEF k
<1>3. \A i \in 1 .. Len(k.recs) : Contents(k.recs[i]) BY <1>1, <1>2
<1>4. k.synced \in 0 .. Len(k.recs) BY <1>1, <1>2
<1>5. LogOK(k) BY <1>1, <1>2, <1>3, <1>4 DEF LogOK
<1> QED BY <1>5 DEF k

(* The logs of a step: one is changed,                                       *)
LEMMA LogChanged ==
  ASSUME LogsTyped, NEW n \in DOMAIN logs, NEW l, LogOK(l), logs' = [logs EXCEPT ![n] = l]
  PROVE  LogsTyped'
BY DEF LogsTyped

(* ... a new one is made,                                                    *)
LEMMA LogMade ==
  ASSUME LogsTyped, NEW n \in Nat,
         logs' = [m \in DOMAIN logs \cup {n} |-> IF m = n THEN [recs |-> <<>>, synced |-> 0] ELSE logs[m]]
  PROVE  LogsTyped'
<1> DEFINE k == [recs |-> <<>>, synced |-> 0]
<1>1. LogOK(k) BY NewLog
<1>2. logs' = [m \in DOMAIN logs \cup {n} |-> IF m = n THEN k ELSE logs[m]] OBVIOUS
<1> HIDE DEF k
<1> QED BY <1>1, <1>2 DEF LogsTyped

(* ... some are deleted, and tables with them.                               *)
LEMMA DeletedData ==
  ASSUME LogsTyped, TablesOK(tables), NEW vs, NEW n, NEW outs, DeleteObsoleteFiles(vs, n, outs)
  PROVE  /\ LogsTyped' /\ TablesOK(tables')
         /\ DOMAIN tables' \subseteq DOMAIN tables /\ DOMAIN logs' \subseteq DOMAIN logs
         /\ \A m \in DOMAIN tables' : tables'[m] = tables[m]
         /\ \A m \in DOMAIN logs : m >= n => m \in DOMAIN logs'
         /\ ~bgError => \A m \in DOMAIN tables' : \/ \E f \in outs : m = f.number
                                                  \/ \E v \in vs : \E f \in FilesOf(v) : m = f.number
<1> DEFINE live == {f.number : f \in (UNION {FilesOf(v) : v \in vs}) \cup outs}
           young == {m \in DOMAIN logs : m >= n}
<1>1. CASE bgError
  <2>1. UNCHANGED <<tables, logs>> BY <1>1 DEF DeleteObsoleteFiles
  <2> QED BY <1>1, <2>1 DEF LogsTyped, TablesOK
<1>2. CASE ~bgError
  <2>1. /\ tables' = Restrict(tables, DOMAIN tables \cap live)
        /\ logs' = Restrict(logs, young)
    BY <1>2 DEF DeleteObsoleteFiles
  <2>2. young \subseteq DOMAIN logs /\ \A m \in DOMAIN logs : m >= n => m \in young OBVIOUS
  <2>3. \A m \in live : \/ \E f \in outs : m = f.number
                        \/ \E v \in vs : \E f \in FilesOf(v) : m = f.number
    <3> SUFFICES ASSUME NEW m \in live
                 PROVE  \/ \E f \in outs : m = f.number
                        \/ \E v \in vs : \E f \in FilesOf(v) : m = f.number
      OBVIOUS
    <3>1. PICK f \in (UNION {FilesOf(v) : v \in vs}) \cup outs : m = f.number OBVIOUS
    <3> HIDE DEF live
    <3> QED BY <3>1
  <2> HIDE DEF live, young
  <2>4. DOMAIN tables' = DOMAIN tables \cap live /\ \A m \in DOMAIN tables' : tables'[m] = tables[m]
    BY <2>1 DEF Restrict
  <2>5. DOMAIN logs' = young /\ \A m \in DOMAIN logs' : logs'[m] = logs[m] BY <2>1 DEF Restrict
  <2>6. LogsTyped' BY <2>2, <2>5 DEF LogsTyped
  <2>7. TablesOK(tables') BY <2>4 DEF TablesOK
  <2> QED BY <2>2, <2>3, <2>4, <2>5, <2>6, <2>7
<1> QED BY <1>1, <1>2

(* The fields of a manifest record.                                          *)
EditShape(e) ==
  /\ e.log \in Nat /\ e.next \in Nat /\ e.seq \in 0 .. MaxSeq /\ e.log < e.next
  /\ \A d \in e.del : d[1] \in Level /\ d[2] \in Nat
  /\ \A a \in e.add : a[1] \in Level /\ a[2].number \in Nat /\ a[2].number < e.next

(* The records that were written or are being installed, the inputs of the   *)
(* compaction and what it has still to write.                                *)
RecordsOK ==
  /\ \A i \in 1 .. Len(manifest.tail) : EditShape(manifest.tail[i])
  /\ edit # <<>> => EditShape(edit[1])
  /\ comp # <<>> => /\ PickOK(comp[1].pick, comp[1].version)
                    /\ \A S \in comp[1].todo : Contents(S) /\ S # {}

(* The counters of the synced state of a manifest.                           *)
StateShape(st) ==
  /\ st.log \in Nat /\ st.next \in Nat /\ st.seq \in 0 .. MaxSeq /\ st.log < st.next
  /\ \A l \in Level : \A f \in st.files[l] : f.number \in Nat /\ f.number < st.next

(* Every record has a counter no smaller than those before it.               *)
TailOrdered(m) ==
  /\ \A i \in 1 .. Len(m.tail) : m.base.next <= m.tail[i].next
  /\ \A i, j \in 1 .. Len(m.tail) : i <= j => m.tail[i].next <= m.tail[j].next

(* The counters: file numbers are below the next one, in memory and in the   *)
(* manifest, and the current log is not older than the record's.             *)
NumbersOK ==
  /\ StateShape(manifest.base) /\ TailOrdered(manifest)
  /\ nextFile \in Nat /\ logfileNumber \in Nat /\ logNumber \in Nat
  /\ up # "down" => /\ logfileNumber \in DOMAIN logs
                    /\ \A n \in DOMAIN logs : n < nextFile
                    /\ logNumber <= logfileNumber
                    /\ manifest.base.next <= nextFile
                    /\ \A i \in 1 .. Len(manifest.tail) : manifest.tail[i].next <= nextFile
  /\ up = "open" => \A n \in DOMAIN tables : n \in Nat /\ n < nextFile
  /\ edit # <<>> => /\ logNumber <= edit[1].log /\ edit[1].log <= logfileNumber
                    /\ manifest.base.next <= edit[1].next /\ edit[1].next <= nextFile
  /\ up = "open" /\ edit # <<>> => /\ manifest.tail # <<>>
                                   /\ manifest.tail[Len(manifest.tail)] = edit[1]
  /\ up = "down" => current = NoFiles

(* The data stay while the memtables and the history do.                     *)
LEMMA SameData ==
  ASSUME DataOK, LogsTyped', TablesOK(tables'), UNCHANGED <<mem, imm, hist, promised>>
  PROVE  DataOK'
BY DEF DataOK

(* ... and of course if nothing changes.                                     *)
LEMMA UntouchedData ==
  ASSUME DataOK, UNCHANGED <<logs, tables, mem, imm, hist, promised>>
  PROVE  DataOK'
BY DEF DataOK, LogsTyped

(* A batch written to the current log.                                       *)
LEMMA RecordLogged ==
  ASSUME QueueOK, CallsOK, LogsTyped, logfileNumber \in DOMAIN logs,
         NEW n \in 1 .. Len(queue), logs' = AddedRecord(n)
  PROVE  LogsTyped'
<1> DEFINE l == logs[logfileNumber]
           k == [l EXCEPT !.recs = Append(@, Batch(n))]
<1>1. LogOK(l) BY DEF LogsTyped
<1>2. n \in 0 .. Len(queue) BY DEF QueueOK
<1>3. Contents(Batch(n)) BY <1>2, BatchTyped
<1>4. LogOK(k) BY <1>1, <1>3, LogGrows
<1>5. logs' = [logs EXCEPT ![logfileNumber] = k] BY DEF AddedRecord
<1> HIDE DEF k
<1> QED BY <1>4, <1>5, LogChanged

(* Every step of a writer keeps DataOK,                                      *)
LEMMA WriterKeepsData ==
  ASSUME QueueOK, NotOpenIsQuiet, CallsOK, NumbersOK, DataOK, NEW w \in Writers, WriterStep(w)
  PROVE  DataOK'
<1>0. up = "open" BY WriterChanges
<1>n. nextFile \in Nat /\ logfileNumber \in DOMAIN logs BY <1>0 DEF NumbersOK
<1>d. LogsTyped /\ TablesOK(tables) BY DEF DataOK
<1>l. UNCHANGED logs => LogsTyped' BY <1>d DEF LogsTyped
<1>t. TablesOK(tables') BY <1>d, WriterChanges
<1>1. ASSUME NEW j \in budget.jobs, Write(w, j) PROVE DataOK'
  BY <1>1, UntouchedData DEF Write, disk, memory, ghosts
<1>2. CASE MakeRoomFails(w) BY <1>2, UntouchedData DEF MakeRoomFails, disk, memory, ghosts
<1>3. CASE MakeRoomWaits(w) BY <1>3, UntouchedData DEF MakeRoomWaits, disk, memory, ghosts
<1>4. CASE SwitchMemTable(w)
  <2>1. /\ logs' = [n \in DOMAIN logs \cup {nextFile} |->
                      IF n = nextFile THEN [recs |-> <<>>, synced |-> 0] ELSE logs[n]]
        /\ imm' = <<mem>> /\ mem' = {} /\ UNCHANGED <<hist, promised>>
    BY <1>4 DEF SwitchMemTable, ghosts
  <2>2. LogsTyped' BY <1>d, <1>n, <2>1, LogMade
  <2>3. Contents(mem') BY <2>1, FS_EmptySet DEF Contents
  <2>4. imm'[1] = mem BY <2>1
  <2> QED BY <1>t, <2>1, <2>2, <2>3, <2>4 DEF DataOK
<1>5. CASE AddRecord(w)
  <2>1. PICK n \in BuildBatchGroup : logs' = AddedRecord(n) BY <1>5 DEF AddRecord
  <2>2. n \in 1 .. Len(queue) BY DEF BuildBatchGroup
  <2>3. LogsTyped' BY <1>d, <1>n, <2>1, <2>2, RecordLogged
  <2>4. UNCHANGED <<mem, imm, hist, promised>> BY <1>5 DEF AddRecord, memory, ghosts
  <2> QED BY <1>t, <2>3, <2>4, SameData
<1>6. CASE AddRecordFails(w)
  <2>1. PICK n \in BuildBatchGroup : logs' \in {logs, AddedRecord(n)} BY <1>6 DEF AddRecordFails
  <2>2. n \in 1 .. Len(queue) BY DEF BuildBatchGroup
  <2>3. LogsTyped' BY <1>d, <1>l, <1>n, <2>1, <2>2, RecordLogged
  <2>4. UNCHANGED <<mem, imm, hist, promised>> BY <1>6 DEF AddRecordFails, ghosts
  <2> QED BY <1>t, <2>3, <2>4, SameData
<1>7. CASE SyncFails(w) BY <1>7, UntouchedData DEF SyncFails, disk, ghosts
<1>8. CASE SyncAndInsert(w)
  <2> DEFINE more == {Batch(i) \ Batch(i - 1) : i \in {k \in 1 .. group : job[queue[k]].sync}}
  <2>1. /\ pc[w] = "logged" /\ mem' = mem \cup Batch(group) /\ hist' = hist \cup Batch(group)
        /\ promised' = promised \cup UNION more /\ UNCHANGED imm
    BY <1>8 DEF SyncAndInsert
  <2>2. group \in 0 .. Len(queue) /\ Len(queue) \in Nat BY DEF QueueOK
  <2>3. Contents(Batch(group)) BY <2>2, BatchTyped
  <2>4. LogsTyped'
    <3> DEFINE l == logs[logfileNumber]
               k == [l EXCEPT !.synced = Len(l.recs)]
    <3>1. LogOK(l) BY <1>d, <1>n DEF LogsTyped
    <3>2. LogOK(k) BY <3>1, LogSynced
    <3>3. logs' = logs \/ logs' = [logs EXCEPT ![logfileNumber].synced = Len(logs[logfileNumber].recs)]
      BY <1>8 DEF SyncAndInsert
    <3>4. logs' = logs \/ logs' = [logs EXCEPT ![logfileNumber] = k] BY <3>3
    <3> HIDE DEF k
    <3> QED BY <1>d, <1>l, <1>n, <3>2, <3>4, LogChanged
  <2>5. Contents(mem')
    <3>1. IsFiniteSet(mem \cup Batch(group)) BY <2>3, FS_Union DEF DataOK, Contents
    <3> QED BY <2>1, <2>3, <3>1 DEF DataOK, Contents
  <2>6. UNION more \subseteq Entry
    <3>1. ASSUME NEW i \in 1 .. group PROVE Batch(i) \subseteq Entry
      <4>1. i \in 0 .. Len(queue) BY <2>2
      <4> QED BY <4>1, BatchTyped DEF Contents
    <3> QED BY <3>1
  <2>7. hist' \subseteq Entry /\ promised' \subseteq Entry
    <3> HIDE DEF more
    <3> QED BY <2>1, <2>3, <2>6 DEF DataOK, Contents
  <2>8. imm' # <<>> => Contents(imm'[1]) BY <2>1 DEF DataOK
  <2> QED BY <1>t, <2>4, <2>5, <2>7, <2>8 DEF DataOK
<1> QED BY <1>1, <1>2, <1>3, <1>4, <1>5, <1>6, <1>7, <1>8 DEF WriterStep

(* A background step that builds table nextFile.                             *)
LEMMA BuildKeepsData ==
  ASSUME DataOK, NEW S, Contents(S), S # {}, tables' = WithTable(tables, nextFile, S),
         UNCHANGED <<logs, mem, imm, hist, promised>>
  PROVE  DataOK'
<1>1. TablesOK(tables') BY TablesFilled DEF DataOK
<1>2. LogsTyped' BY DEF DataOK, LogsTyped
<1> QED BY <1>1, <1>2, SameData

(* Every step of the background thread keeps DataOK,                         *)
LEMMA BackgroundKeepsData ==
  ASSUME ShapesOK, RecordsOK, DataOK, BackgroundStep
  PROVE  DataOK'
<1>d. LogsTyped /\ TablesOK(tables) BY DEF DataOK
<1>1. CASE WriteLevel0Table
  <2>1. UNCHANGED <<logs, mem, imm, hist, promised>> BY <1>1 DEF WriteLevel0Table, ghosts
  <2>2. CASE imm[1] = {}
    <3>1. tables' = tables BY <1>1, <2>2 DEF WriteLevel0Table
    <3> QED BY <2>1, <3>1, UntouchedData
  <2>3. CASE imm[1] # {}
    <3>1. tables' = WithTable(tables, nextFile, imm[1]) BY <1>1, <2>3 DEF WriteLevel0Table, WithTable
    <3>2. imm # <<>> BY <1>1 DEF WriteLevel0Table, MayFlush
    <3>3. Contents(imm[1]) BY <3>2 DEF DataOK
    <3> QED BY <2>1, <2>3, <3>1, <3>3, BuildKeepsData
  <2> QED BY <2>2, <2>3
<1>2. CASE FlushInstalled
  <2>1. \E vs, n, outs : DeleteObsoleteFiles(vs, n, outs) BY <1>2 DEF FlushInstalled
  <2>2. LogsTyped' /\ TablesOK(tables') BY <1>d, <2>1, DeletedData
  <2>3. UNCHANGED <<mem, hist, promised>> /\ imm' = <<>> BY <1>2 DEF FlushInstalled
  <2> QED BY <2>2, <2>3 DEF DataOK
<1>3. CASE FlushFails BY <1>3, UntouchedData DEF FlushFails, disk, ghosts
<1>4. CASE BackgroundCallStops BY <1>4, UntouchedData DEF BackgroundCallStops, disk, memory, ghosts
<1>5. CASE StartCompaction BY <1>5, UntouchedData DEF StartCompaction, disk, memory
<1>6. CASE MoveFile BY <1>6, UntouchedData DEF MoveFile, memory
<1>7. CASE FinishCompactionOutputFile
  <2>1. comp # <<>> BY <1>7, WorkingShape DEF FinishCompactionOutputFile
  <2>2. UNCHANGED <<logs, mem, imm, hist, promised>> BY <1>7 DEF FinishCompactionOutputFile, ghosts
  <2>3. PICK S \in comp[1].todo : tables' = [n \in DOMAIN tables \cup {nextFile} |->
                                                IF n = nextFile THEN S ELSE tables[n]]
    BY <1>7 DEF FinishCompactionOutputFile
  <2>4. Contents(S) /\ S # {} BY <2>1 DEF RecordsOK
  <2>5. tables' = WithTable(tables, nextFile, S) BY <2>3 DEF WithTable
  <2> QED BY <2>2, <2>4, <2>5, BuildKeepsData
<1>8. CASE InstallCompactionResults
  BY <1>8, UntouchedData DEF InstallCompactionResults, memory, ghosts
<1>9. CASE CompactionInstalled
  <2>1. UNCHANGED <<tables, logs>> \/ \E vs, n, outs : DeleteObsoleteFiles(vs, n, outs)
    BY <1>9 DEF CompactionInstalled
  <2>2. UNCHANGED <<mem, imm, hist, promised>> BY <1>9 DEF CompactionInstalled
  <2>3. CASE UNCHANGED <<tables, logs>> BY <2>2, <2>3, UntouchedData
  <2>4. CASE \E vs, n, outs : DeleteObsoleteFiles(vs, n, outs)
    <3>1. LogsTyped' /\ TablesOK(tables') BY <1>d, <2>4, DeletedData
    <3> QED BY <2>2, <3>1, SameData
  <2> QED BY <2>1, <2>3, <2>4
<1>10. CASE CompactionFails BY <1>10, UntouchedData DEF CompactionFails, disk, memory, ghosts
<1> QED BY <1>1, <1>2, <1>3, <1>4, <1>5, <1>6, <1>7, <1>8, <1>9, <1>10 DEF BackgroundStep

(* ... so does a crash,                                                      *)
LEMMA CrashKeepsData ==
  ASSUME DataOK, Crash PROVE DataOK'
<1>1. PICK left : /\ \A n \in DOMAIN logs : left[n] \in RecordsLeft(logs[n])
                  /\ logs' = [n \in DOMAIN logs |-> [recs |-> left[n], synced |-> Len(left[n])]]
                  /\ \E read \in SUBSET DOMAIN logs : \E torn :
                       hist' = (hist \ torn) \cup UNION {EntriesOf(left[n]) : n \in read}
  <2> DEFINE state(t) == AppliedAll(manifest.base, SubSeq(manifest.tail, 1, t))
             read(t) == {n \in DOMAIN logs : n >= state(t).log}
             back(t, left) == UNION {EntriesOf(left[n]) : n \in read(t)}
             torn(t, left) == ((UNION {EntriesOf(logs[n].recs) : n \in read(t)}) \ back(t, left))
                                \ LiveTables(state(t).files)
  <2>1. PICK t \in 0 .. Len(manifest.tail),
             left \in [DOMAIN logs -> UNION {RecordsLeft(logs[n]) : n \in DOMAIN logs}] :
          /\ \A n \in DOMAIN logs : left[n] \in RecordsLeft(logs[n])
          /\ logs' = [n \in DOMAIN logs |-> [recs |-> left[n], synced |-> Len(left[n])]]
          /\ hist' = (hist \ torn(t, left)) \cup back(t, left)
    BY DEF Crash
  <2>2. read(t) \in SUBSET DOMAIN logs OBVIOUS
  <2> HIDE DEF torn, read
  <2>3. \E r \in SUBSET DOMAIN logs : \E x : hist' = (hist \ x) \cup UNION {EntriesOf(left[n]) : n \in r}
    BY <2>1, <2>2
  <2> QED BY <2>1, <2>3
<1>2. tables' = tables /\ mem' = {} /\ imm' = <<>> /\ promised' = promised BY DEF Crash
<1>3. ASSUME NEW n \in DOMAIN logs PROVE n \in Nat /\ LogOK([recs |-> left[n], synced |-> Len(left[n])])
  BY <1>1, LogReadBack DEF DataOK, LogsTyped
<1>4. LogsTyped' BY <1>1, <1>3 DEF LogsTyped
<1>5. ASSUME NEW n \in DOMAIN logs PROVE EntriesOf(left[n]) \subseteq Entry
  <2> DEFINE k == [recs |-> left[n], synced |-> Len(left[n])]
  <2>1. Contents(EntriesOf(k.recs)) BY <1>3, LogContents
  <2>2. k.recs = left[n] OBVIOUS
  <2> HIDE DEF k
  <2> QED BY <2>1, <2>2 DEF Contents
<1>6. hist' \subseteq Entry
  <2>1. PICK r \in SUBSET DOMAIN logs :
          \E x : hist' = (hist \ x) \cup UNION {EntriesOf(left[n]) : n \in r}
    BY <1>1
  <2>2. UNION {EntriesOf(left[n]) : n \in r} \subseteq Entry BY <1>5
  <2>3. hist \subseteq Entry BY DEF DataOK
  <2> QED BY <2>1, <2>2, <2>3
<1>7. Contents(mem') BY <1>2, FS_EmptySet DEF Contents
<1> QED BY <1>2, <1>4, <1>6, <1>7 DEF DataOK

(* What Recover leaves, in the state of the invariant.                       *)
LEMMA RecoverySoundNow ==
  ASSUME ShapesOK, DataOK, NumbersOK
  PROVE  RecoverySound(Recovered) /\ \A n \in DOMAIN logs : n < Recovered.next
<1>1. /\ manifest.base.next \in Nat /\ manifest.base.log \in Nat
      /\ manifest.base.log < manifest.base.next /\ manifest.base.seq \in 0 .. MaxSeq
  BY DEF NumbersOK, StateShape
<1>2. LogsTyped /\ TablesOK(tables) /\ IsFiniteSet(DOMAIN logs) BY DEF DataOK, ShapesOK
<1> QED BY <1>1, <1>2, RecoveredSound

(* ... and so does every step.                                               *)
LEMMA DataKept ==
  ASSUME QueueOK, ShapesOK, NotOpenIsQuiet, CallsOK, NumbersOK, RecordsOK, DataOK, Next
  PROVE  DataOK'
<1>d. LogsTyped /\ TablesOK(tables) BY DEF DataOK
<1>1. ASSUME NEW w \in Writers, WriterStep(w) PROVE DataOK' BY <1>1, WriterKeepsData
<1>2. CASE ReaderStep
  BY <1>2, ReaderKeepsCalls, UntouchedData DEF disk, memory, ghosts
<1>3. CASE BackgroundStep BY <1>3, BackgroundKeepsData
<1>4. CASE Crash BY <1>4, CrashKeepsData
<1>5. CASE Open
  <2> DEFINE r == Recovered
  <2>1. RecoverySound(r) BY RecoverySoundNow
  <2>2. /\ tables' = r.tables /\ UNCHANGED <<mem, imm, hist, promised>>
        /\ logs' = [n \in DOMAIN logs \cup {r.next} |->
                      IF n = r.next THEN [recs |-> <<>>, synced |-> 0] ELSE logs[n]]
    BY <1>5 DEF Open, ghosts
  <2> HIDE DEF r
  <2>3. r.next \in Nat /\ TablesOK(r.tables) BY <2>1 DEF RecoverySound
  <2>4. LogsTyped' BY <1>d, <2>2, <2>3, LogMade
  <2> QED BY <2>2, <2>3, <2>4, SameData
<1>6. CASE OpenInstalled
  <2>1. \E vs, n, outs : DeleteObsoleteFiles(vs, n, outs) BY <1>6 DEF OpenInstalled
  <2>2. LogsTyped' /\ TablesOK(tables') BY <1>d, <2>1, DeletedData
  <2>3. UNCHANGED <<mem, imm, hist, promised>> BY <1>6 DEF OpenInstalled, ghosts
  <2> QED BY <2>2, <2>3, SameData
<1> QED BY <1>1, <1>2, <1>3, <1>4, <1>5, <1>6 DEF Next

(***************************************************************************)
(* The bounds of the files, and the records that name them.                 *)
(***************************************************************************)

(* The files of version v have the bounds of their tables in ts,             *)
VersionBounds(v, ts) == \A l \in Level : \A f \in v[l] : FileOK(f, ts)

(* ... those record e adds,                                                  *)
EditBounds(e, ts) == \A a \in e.add : FileOK(a[2], ts)

(* ... and those of compaction c, its inputs and its outputs.                *)
CompBounds(c, ts) == VersionBounds(c.version, ts) /\ \A f \in c.outs : FileOK(f, ts)

(* Every file that is named somewhere has the bounds of its table.           *)
BoundsOK ==
  /\ VersionBounds(current, tables) /\ VersionBounds(manifest.base.files, tables)
  /\ \A i \in 1 .. Len(manifest.tail) : EditBounds(manifest.tail[i], tables)
  /\ edit # <<>> => EditBounds(edit[1], tables)
  /\ comp # <<>> => CompBounds(comp[1], tables)

(* A step leaves the files that are on disk their bounds.                    *)
KeepsBounds == \A f : f.number \in DOMAIN tables /\ FileOK(f, tables) => FileOK(f, tables')

(* A new table has a new number,                                             *)
LEMMA BuildKeepsBounds ==
  ASSUME NumbersOK, up = "open", NEW S, tables' = WithTable(tables, nextFile, S)
  PROVE  KeepsBounds
<1> SUFFICES ASSUME NEW f, f.number \in DOMAIN tables, FileOK(f, tables) PROVE FileOK(f, tables')
  BY DEF KeepsBounds
<1>1. f.number # nextFile BY DEF NumbersOK
<1>2. TableIn(tables', f.number) = TableIn(tables, f.number) BY <1>1, TablesStay
<1> QED BY <1>2, OtherTable

(* ... a table that is deleted bounds nothing,                               *)
LEMMA DeleteKeepsBounds ==
  ASSUME DataOK, NEW vs, NEW n, NEW outs, DeleteObsoleteFiles(vs, n, outs)
  PROVE  KeepsBounds
<1> SUFFICES ASSUME NEW f, FileOK(f, tables) PROVE FileOK(f, tables')
  BY DEF KeepsBounds
<1>1. DOMAIN tables' \subseteq DOMAIN tables /\ \A m \in DOMAIN tables' : tables'[m] = tables[m]
  BY DeletedData DEF DataOK
<1>2. TableIn(tables', f.number) \subseteq TableIn(tables, f.number) BY <1>1 DEF TableIn
<1> QED BY <1>2 DEF FileOK

(* ... and so does every step but Open.                                      *)
LEMMA BoundsStay ==
  ASSUME NotOpenIsQuiet, NumbersOK, DataOK, Next, ~Open
  PROVE  KeepsBounds
<1>0. UNCHANGED tables => KeepsBounds BY DEF KeepsBounds
<1>1. ASSUME NEW w \in Writers, WriterStep(w) PROVE KeepsBounds BY <1>0, <1>1, WriterChanges
<1>2. CASE ReaderStep BY <1>0, <1>2, ReaderKeepsCalls DEF disk
<1>3. CASE WriteLevel0Table
  <2>1. up = "open" BY <1>3 DEF WriteLevel0Table, MayFlush
  <2>2. tables' = tables \/ tables' = WithTable(tables, nextFile, imm[1])
    BY <1>3 DEF WriteLevel0Table, WithTable
  <2> QED BY <1>0, <2>1, <2>2, BuildKeepsBounds
<1>4. CASE FlushInstalled
  <2>1. \E vs, n, outs : DeleteObsoleteFiles(vs, n, outs) BY <1>4 DEF FlushInstalled
  <2> QED BY <2>1, DeleteKeepsBounds
<1>5. CASE FlushFails BY <1>0, <1>5 DEF FlushFails, disk
<1>6. CASE BackgroundCallStops BY <1>0, <1>6 DEF BackgroundCallStops, disk
<1>7. CASE StartCompaction BY <1>0, <1>7 DEF StartCompaction, disk
<1>8. CASE MoveFile BY <1>0, <1>8 DEF MoveFile
<1>9. CASE FinishCompactionOutputFile
  <2>1. up = "open" BY <1>9, BackgroundIsOpen DEF BackgroundStep
  <2>2. \E S : tables' = WithTable(tables, nextFile, S)
    BY <1>9 DEF FinishCompactionOutputFile, WithTable
  <2> QED BY <2>1, <2>2, BuildKeepsBounds
<1>10. CASE InstallCompactionResults BY <1>0, <1>10 DEF InstallCompactionResults
<1>11. CASE CompactionInstalled
  <2>1. UNCHANGED tables \/ \E vs, n, outs : DeleteObsoleteFiles(vs, n, outs)
    BY <1>11 DEF CompactionInstalled
  <2> QED BY <1>0, <2>1, DeleteKeepsBounds
<1>12. CASE CompactionFails BY <1>0, <1>12 DEF CompactionFails, disk
<1>13. CASE Crash BY <1>0, <1>13 DEF Crash
<1>14. CASE OpenInstalled
  <2>1. \E vs, n, outs : DeleteObsoleteFiles(vs, n, outs) BY <1>14 DEF OpenInstalled
  <2> QED BY <2>1, DeleteKeepsBounds
<1> QED BY <1>1, <1>2, <1>3, <1>4, <1>5, <1>6, <1>7, <1>8, <1>9, <1>10, <1>11, <1>12, <1>13, <1>14
        DEF Next, BackgroundStep

(* What is on disk and bounded stays so.                                     *)
LEMMA KeptBounds ==
  ASSUME KeepsBounds
  PROVE  /\ \A v : VersionOK(v, DOMAIN tables) /\ VersionBounds(v, tables) => VersionBounds(v, tables')
         /\ \A e : EditOK(e, DOMAIN tables) /\ EditBounds(e, tables) => EditBounds(e, tables')
         /\ \A c : CompOK(c, DOMAIN tables) /\ CompBounds(c, tables) => CompBounds(c, tables')
<1>1. ASSUME NEW v, VersionOK(v, DOMAIN tables), VersionBounds(v, tables) PROVE VersionBounds(v, tables')
  BY <1>1 DEF KeepsBounds, VersionOK, VersionBounds
<1>2. ASSUME NEW e, EditOK(e, DOMAIN tables), EditBounds(e, tables) PROVE EditBounds(e, tables')
  BY <1>2 DEF KeepsBounds, EditOK, EditBounds
<1>3. ASSUME NEW c, CompOK(c, DOMAIN tables), CompBounds(c, tables) PROVE CompBounds(c, tables')
  <2>1. VersionBounds(c.version, tables') BY <1>1, <1>3 DEF CompOK, CompBounds
  <2>2. \A f \in c.outs : FileOK(f, tables') BY <1>3 DEF KeepsBounds, CompOK, CompBounds
  <2> QED BY <2>1, <2>2 DEF CompBounds
<1> QED BY <1>1, <1>2, <1>3

(* The compactions picked from the current version.                          *)
LEMMA PickNow ==
  ASSUME FilesThere, BoundsOK, NEW c \in PickCompaction(current)
  PROVE  InputsSound(current, c) /\ PickOK(c, current)
<1>1. ASSUME NEW l \in Level PROVE IsFiniteSet(current[l]) /\ KeysOK(current[l])
  <2>1. IsFiniteSet(current[l]) BY DEF FilesThere, VersionOK
  <2>2. \A f \in current[l] : Bounded(f) BY DEF BoundsOK, VersionBounds, FileOK
  <2> QED BY <2>1, <2>2, BoundedKeys
<1>2. InputsSound(current, c) BY <1>1, PickSound
<1>3. PickOK(c, current) BY <1>2 DEF InputsSound, PickOK, Overlapping
<1> QED BY <1>2, <1>3

(* The files a compaction deletes.                                           *)
LEMMA DeletionsTyped ==
  ASSUME NEW p, NEW v, PickOK(p, v), NEW ts, VersionBounds(v, ts)
  PROVE  /\ p.level \in Level /\ p.level + 1 \in Level
         /\ \A d \in AddInputDeletions(p) : d[1] \in Level /\ d[2] \in Nat
<1>1. p.level \in Level /\ p.level + 1 \in Level /\ p.in0 \subseteq v[p.level] /\ p.in1 \subseteq v[p.level + 1]
  BY LevelAssumption DEF PickOK, Level
<1>2. \A f \in p.in0 \cup p.in1 : f.number \in Nat BY <1>1 DEF VersionBounds, FileOK
<1> QED BY <1>1, <1>2 DEF AddInputDeletions

(* Record e as LogAndApply writes it: its shape, the bounds of its files and *)
(* its counters between the ones in memory.                                  *)
RecordGood(e) ==
  /\ EditShape(e) /\ EditBounds(e, tables')
  /\ logNumber <= e.log /\ e.log <= logfileNumber
  /\ nextFile <= e.next /\ e.next <= nextFile'

(* A record of the counters lg and nx.                                       *)
LEMMA RecordMade ==
  ASSUME CallsOK, NumbersOK, up = "open", NEW nx \in Nat, nextFile <= nx, nx <= nextFile',
         nextFile' \in Nat, NEW lg \in {logNumber, logfileNumber}, NEW del, NEW add,
         \A d \in del : d[1] \in Level /\ d[2] \in Nat,
         \A a \in add : a[1] \in Level /\ a[2].number < nx /\ FileOK(a[2], tables')
  PROVE  RecordGood(VersionEdit(lg, nx, del, add))
<1> DEFINE e == VersionEdit(lg, nx, del, add)
<1>1. e.log = lg /\ e.next = nx /\ e.seq = lastSequence /\ e.del = del /\ e.add = add BY DEF VersionEdit
<1>2. lastSequence \in 0 .. MaxSeq BY DEF CallsOK
<1>3. /\ logNumber \in Nat /\ logfileNumber \in Nat /\ nextFile \in Nat /\ logNumber <= logfileNumber
      /\ logfileNumber < nextFile
  BY DEF NumbersOK
<1> HIDE DEF e
<1>4. e.log \in Nat /\ e.log < e.next /\ logNumber <= e.log /\ e.log <= logfileNumber BY <1>1, <1>3
<1>5. \A a \in add : a[2].number \in Nat BY DEF FileOK
<1>6. EditShape(e) BY <1>1, <1>2, <1>4, <1>5 DEF EditShape
<1>7. EditBounds(e, tables') BY <1>1 DEF EditBounds
<1> QED BY <1>1, <1>4, <1>6, <1>7 DEF RecordGood, e

(* CompactMemTable's record: the flushed table, if there is one, at a level  *)
(* where nothing of its range is.                                            *)
LEMMA FlushRecord ==
  ASSUME CallsOK, NumbersOK, DataOK, WriteLevel0Table
  PROVE  \E e : /\ LogRecord(e) /\ RecordGood(e) /\ e.del = {}
                /\ \/ e.add = {}
                   \/ \E f, l : /\ Bounded(f) /\ l \in PickLevelForMemTableOutput(current, GetRange({f}))
                                /\ e.add = {<<l, f>>}
<1>0. up = "open" /\ imm # <<>> /\ nextFile' = nextFile + 1 /\ nextFile \in Nat
  BY DEF WriteLevel0Table, MayFlush, NumbersOK
<1>n. nextFile + 1 \in Nat /\ nextFile <= nextFile + 1 /\ nextFile + 1 <= nextFile' /\ nextFile' \in Nat
  BY <1>0
<1>1. CASE imm[1] = {}
  <2> DEFINE e == VersionEdit(logfileNumber, nextFile + 1, {}, {})
  <2>1. LogRecord(e) BY <1>1 DEF WriteLevel0Table
  <2>2. RecordGood(e) BY <1>0, <1>n, RecordMade
  <2>3. e.del = {} /\ e.add = {} BY DEF VersionEdit
  <2> HIDE DEF e
  <2> QED BY <2>1, <2>2, <2>3
<1>2. CASE imm[1] # {}
  <2> DEFINE f == FileMetaData(nextFile, imm[1])
  <2>1. tables' = WithTable(tables, nextFile, imm[1]) BY <1>2 DEF WriteLevel0Table, WithTable
  <2>2. PICK l \in PickLevelForMemTableOutput(current, GetRange({f})) :
           LogRecord(VersionEdit(logfileNumber, nextFile + 1, {}, {<<l, f>>}))
    BY <1>2 DEF WriteLevel0Table
  <2>3. Contents(imm[1]) BY <1>0 DEF DataOK
  <2>4. FileOK(f, tables') /\ Bounded(f) /\ f.number = nextFile
    BY <1>0, <1>2, <2>1, <2>3, BuiltFile
  <2> DEFINE add == {<<l, f>>}
             e == VersionEdit(logfileNumber, nextFile + 1, {}, add)
  <2>5. LogRecord(e) BY <2>2
  <2>6. e.del = {} /\ e.add = add BY DEF VersionEdit
  <2> HIDE DEF f
  <2>7. l \in Level BY <2>2, <2>4, PickedLevelClear
  <2>8. \A a \in add : a[1] \in Level /\ a[2].number < nextFile + 1 /\ FileOK(a[2], tables')
    BY <1>0, <2>4, <2>7
  <2>9. RecordGood(e)
    <3> HIDE DEF add
    <3> QED BY <1>0, <1>n, <2>8, RecordMade
  <2> HIDE DEF e
  <2> QED BY <2>2, <2>4, <2>5, <2>6, <2>9
<1> QED BY <1>1, <1>2

(* A file on disk is below the counter.                                      *)
LEMMA OnDiskBelow ==
  ASSUME NumbersOK, up = "open", NEW f, f.number \in DOMAIN tables PROVE f.number < nextFile
BY DEF NumbersOK

(* The record of a move.                                                     *)
LEMMA MoveRecord ==
  ASSUME CallsOK, NumbersOK, FilesThere, BoundsOK, NEW c \in PickCompaction(current),
         MoveFile
  PROVE  RecordGood(VersionEdit(logNumber, nextFile, AddInputDeletions(c),
                                {<<c.level + 1, f>> : f \in c.in0}))
<1>0. up = "open" /\ UNCHANGED <<tables, nextFile>> BY DEF MoveFile, MayCompact, memory
<1>n. nextFile \in Nat /\ nextFile <= nextFile /\ nextFile <= nextFile' /\ nextFile' \in Nat
  BY <1>0 DEF NumbersOK
<1>1. PickOK(c, current) BY PickNow
<1>2. VersionBounds(current, tables) BY DEF BoundsOK
<1>3. c.level \in Level /\ c.level + 1 \in Level BY <1>1, <1>2, DeletionsTyped
<1>d. \A d \in AddInputDeletions(c) : d[1] \in Level /\ d[2] \in Nat BY <1>1, <1>2, DeletionsTyped
<1>4. \A f \in c.in0 : f.number \in DOMAIN tables /\ FileOK(f, tables)
  BY <1>1, <1>3 DEF PickOK, FilesThere, VersionOK, BoundsOK, VersionBounds
<1>5. \A f \in c.in0 : f.number < nextFile BY <1>0, <1>4, OnDiskBelow
<1> DEFINE add == {<<c.level + 1, f>> : f \in c.in0}
           del == AddInputDeletions(c)
<1>6. \A a \in add : a[1] \in Level /\ a[2].number < nextFile /\ FileOK(a[2], tables')
  BY <1>0, <1>3, <1>4, <1>5
<1>7. \A d \in del : d[1] \in Level /\ d[2] \in Nat BY <1>d
<1> HIDE DEF add, del
<1>8. RecordGood(VersionEdit(logNumber, nextFile, del, add)) BY <1>0, <1>n, <1>6, <1>7, RecordMade
<1> QED BY <1>8 DEF add, del

(* The record of a compaction.                                               *)
LEMMA ResultsRecord ==
  ASSUME ShapesOK, NotOpenIsQuiet, CallsOK, NumbersOK, FilesThere, BoundsOK, RecordsOK,
         InstallCompactionResults
  PROVE  RecordGood(VersionEdit(logNumber, nextFile, AddInputDeletions(comp[1].pick),
                                {<<comp[1].pick.level + 1, f>> : f \in comp[1].outs}))
<1> DEFINE c == comp[1].pick
<1>0. up = "open" BY BackgroundIsOpen DEF BackgroundStep
<1>u. UNCHANGED <<tables, nextFile>> BY DEF InstallCompactionResults, memory
<1>n. nextFile \in Nat /\ nextFile <= nextFile /\ nextFile <= nextFile' /\ nextFile' \in Nat
  BY <1>u DEF NumbersOK
<1>c. comp # <<>> BY WorkingShape DEF InstallCompactionResults
<1>1. PickOK(c, comp[1].version) BY <1>c DEF RecordsOK
<1>2. VersionBounds(comp[1].version, tables) /\ \A f \in comp[1].outs : FileOK(f, tables)
  BY <1>c DEF BoundsOK, CompBounds
<1>f. \A f \in comp[1].outs : f.number \in DOMAIN tables BY <1>c DEF FilesThere, CompOK
<1> HIDE DEF c
<1>3. c.level \in Level /\ c.level + 1 \in Level BY <1>1, <1>2, DeletionsTyped
<1>d. \A d \in AddInputDeletions(c) : d[1] \in Level /\ d[2] \in Nat BY <1>1, <1>2, DeletionsTyped
<1>5. \A f \in comp[1].outs : f.number < nextFile BY <1>0, <1>f, OnDiskBelow
<1> DEFINE add == {<<c.level + 1, f>> : f \in comp[1].outs}
           del == AddInputDeletions(c)
<1>6. \A a \in add : a[1] \in Level /\ a[2].number < nextFile /\ FileOK(a[2], tables')
  BY <1>u, <1>2, <1>3, <1>5
<1>7. \A d \in del : d[1] \in Level /\ d[2] \in Nat BY <1>d
<1> HIDE DEF add, del
<1>8. RecordGood(VersionEdit(logNumber, nextFile, del, add)) BY <1>0, <1>n, <1>6, <1>7, RecordMade
<1> QED BY <1>8 DEF add, del, c

(* Every record written is a good one.                                       *)
LEMMA GoodRecord ==
  ASSUME ShapesOK, NotOpenIsQuiet, CallsOK, NumbersOK, FilesThere, DataOK, BoundsOK, RecordsOK,
         WriteLevel0Table \/ MoveFile \/ InstallCompactionResults
  PROVE  \E e : LogRecord(e) /\ RecordGood(e)
<1>1. CASE WriteLevel0Table BY <1>1, FlushRecord
<1>2. CASE MoveFile
  <2>1. PICK c \in PickCompaction(current) :
           LogRecord(VersionEdit(logNumber, nextFile, AddInputDeletions(c),
                                 {<<c.level + 1, f>> : f \in c.in0}))
    BY <1>2 DEF MoveFile
  <2> QED BY <1>2, <2>1, MoveRecord
<1>3. CASE InstallCompactionResults
  <2>1. LogRecord(VersionEdit(logNumber, nextFile, AddInputDeletions(comp[1].pick),
                              {<<comp[1].pick.level + 1, f>> : f \in comp[1].outs}))
    BY <1>3 DEF InstallCompactionResults
  <2> QED BY <1>3, <2>1, ResultsRecord
<1> QED BY <1>1, <1>2, <1>3

(* Nothing is recorded, installed or recovered.                              *)
Still ==
  /\ UNCHANGED <<manifest, up, current, logNumber>>
  /\ edit' \in {edit, <<>>}

(* The steps that record, install, crash or recover, and all others.         *)
LEMMA RecordSteps ==
  ASSUME NotOpenIsQuiet, Next
  PROVE  \/ WriteLevel0Table \/ MoveFile \/ InstallCompactionResults
         \/ FlushInstalled \/ CompactionInstalled \/ Crash \/ Open \/ OpenInstalled
         \/ Still
<1>1. ASSUME NEW w \in Writers, WriterStep(w) PROVE Still
  <2>1. UNCHANGED logNumber
    BY <1>1 DEF WriterStep, Write, MakeRoomFails, MakeRoomWaits, SwitchMemTable, AddRecord,
                AddRecordFails, SyncFails, SyncAndInsert, memory
  <2> QED BY <1>1, <2>1, WriterChanges DEF Still
<1>2. CASE ReaderStep BY <1>2, ReaderKeepsCalls DEF Still, disk, memory
<1>3. CASE FlushFails BY <1>3 DEF FlushFails, Still, disk
<1>4. CASE BackgroundCallStops BY <1>4 DEF BackgroundCallStops, Still, disk, memory
<1>5. CASE StartCompaction BY <1>5 DEF StartCompaction, Still, disk, memory
<1>6. CASE FinishCompactionOutputFile BY <1>6 DEF FinishCompactionOutputFile, Still
<1>7. CASE CompactionFails BY <1>7 DEF CompactionFails, Still, disk, memory
<1> QED BY <1>1, <1>2, <1>3, <1>4, <1>5, <1>6, <1>7 DEF Next, BackgroundStep

(* The steps of a compaction, and all others.                                *)
LEMMA CompSteps ==
  ASSUME NotOpenIsQuiet, Next
  PROVE  \/ StartCompaction \/ MoveFile \/ FinishCompactionOutputFile \/ InstallCompactionResults
         \/ comp' \in {comp, <<>>}
<1>1. ASSUME NEW w \in Writers, WriterStep(w) PROVE comp' = comp BY <1>1, WriterChanges
<1>2. CASE ReaderStep BY <1>2, ReaderKeepsCalls
<1>3. CASE WriteLevel0Table BY <1>3 DEF WriteLevel0Table
<1>4. CASE FlushInstalled BY <1>4 DEF FlushInstalled
<1>5. CASE FlushFails BY <1>5 DEF FlushFails
<1>6. CASE BackgroundCallStops BY <1>6 DEF BackgroundCallStops
<1>7. CASE CompactionInstalled BY <1>7 DEF CompactionInstalled
<1>8. CASE CompactionFails BY <1>8 DEF CompactionFails
<1>9. CASE Crash BY <1>9 DEF Crash
<1>10. CASE Open BY <1>10 DEF Open
<1>11. CASE OpenInstalled BY <1>11 DEF OpenInstalled
<1> QED BY <1>1, <1>2, <1>3, <1>4, <1>5, <1>6, <1>7, <1>8, <1>9, <1>10, <1>11
        DEF Next, BackgroundStep

(* The record Open writes.                                                   *)
OpenRecord(r) == [log |-> r.next, next |-> r.next + 1, seq |-> r.seq, del |-> {}, add |-> r.add]

(* ... and its shape.                                                        *)
LEMMA OpenRecordShape ==
  ASSUME NEW r, RecoverySound(r) PROVE EditShape(OpenRecord(r))
<1> DEFINE e == OpenRecord(r)
<1>1. e.log = r.next /\ e.next = r.next + 1 /\ e.seq = r.seq /\ e.del = {} /\ e.add = r.add
  BY DEF OpenRecord
<1>2. r.next \in Nat /\ r.seq \in 0 .. MaxSeq BY DEF RecoverySound
<1>3. \A a \in r.add : a[1] = 0 /\ a[2].number < r.next /\ a[2].number \in Nat
  BY DEF RecoverySound, AddedOK, FileOK
<1>4. 0 \in Level BY LevelAssumption DEF Level
<1> HIDE DEF e
<1> QED BY <1>1, <1>2, <1>3, <1>4 DEF EditShape, e

(* Output file f made: the inputs stay, and what is still to write is less.  *)
LEMMA OutputTaken ==
  ASSUME NEW d, IsCompaction(d), NEW T, NEW f
  PROVE  /\ WithOutput(d, T, f).pick = d.pick /\ WithOutput(d, T, f).todo = d.todo \ {T}
         /\ WithOutput(d, T, f).phase = d.phase
<1> DEFINE e == [d EXCEPT !.todo = d.todo \ {T}]
           c == WithOutput(d, T, f)
<1>1. d = [phase |-> d.phase, pick |-> d.pick, version |-> d.version, todo |-> d.todo,
           outs |-> d.outs]
  BY DEF IsCompaction
<1>2. e = [phase |-> d.phase, pick |-> d.pick, version |-> d.version, todo |-> d.todo \ {T},
           outs |-> d.outs]
  BY <1>1
<1>3. c = [e EXCEPT !.outs = d.outs \cup {f}] BY DEF WithOutput
<1> HIDE DEF e, c
<1>4. c.pick = d.pick /\ c.todo = d.todo \ {T} /\ c.phase = d.phase BY <1>2, <1>3
<1> QED BY <1>4 DEF c

(* A new phase changes neither.                                              *)
LEMMA PhaseOnly ==
  ASSUME NEW d, IsCompaction(d), NEW p
  PROVE  LET c == [d EXCEPT !.phase = p] IN c.pick = d.pick /\ c.todo = d.todo /\ c.phase = p
<1>1. d = [phase |-> d.phase, pick |-> d.pick, version |-> d.version, todo |-> d.todo,
           outs |-> d.outs]
  BY DEF IsCompaction
<1> QED BY <1>1

(* The compaction StartCompaction starts.                                    *)
Started(d, c) ==
  /\ d.phase = "work" /\ d.pick = c /\ d.version = current /\ d.outs = {}
  /\ \A S \in d.todo : Contents(S) /\ S # {} /\ S \subseteq Merged(c.in0 \cup c.in1, tables)

(* ... from inputs of the current version.                                   *)
LEMMA CompactionStarted ==
  ASSUME FilesThere, BoundsOK, DataOK, StartCompaction
  PROVE  \E c \in PickCompaction(current) : comp' # <<>> /\ Started(comp'[1], c)
<1> DEFINE in(c) == UNION {Table(f.number) : f \in c.in0 \cup c.in1}
           out(c, cuts) == Outputs(KeptEntries(in(c), current, c.level, SmallestSnapshot), cuts)
<1>1. PICK c \in PickCompaction(current) : \E cuts :
         comp' = <<[phase |-> "work", pick |-> c, version |-> current, todo |-> out(c, cuts), outs |-> {}]>>
  BY DEF StartCompaction
<1>2. PICK cuts :
         comp' = <<[phase |-> "work", pick |-> c, version |-> current, todo |-> out(c, cuts), outs |-> {}]>>
  BY <1>1
<1> DEFINE F == c.in0 \cup c.in1
<1>3. in(c) = Merged(F, tables) BY DEF Merged, Table
<1>4. IsFiniteSet(F)
  <2>1. PickOK(c, current) BY PickNow
  <2>2. c.level \in Level /\ c.level + 1 \in Level BY <2>1, LevelAssumption DEF PickOK, Level
  <2>3. IsFiniteSet(current[c.level]) /\ IsFiniteSet(current[c.level + 1])
    BY <2>2 DEF FilesThere, VersionOK
  <2>4. IsFiniteSet(c.in0) /\ IsFiniteSet(c.in1) BY <2>1, <2>3, FS_Subset DEF PickOK
  <2> QED BY <2>4, FS_Union
<1> HIDE DEF F
<1>5. \A n \in DOMAIN tables : Contents(tables[n]) BY DEF DataOK, TablesOK
<1>6. Contents(Merged(F, tables)) BY <1>4, <1>5, MergedContents
<1> DEFINE M == Merged(F, tables)
           todo == out(c, cuts)
<1>7. todo = Outputs(KeptEntries(M, current, c.level, SmallestSnapshot), cuts) BY <1>3
<1> HIDE DEF M, todo
<1>8. \A S \in todo : Contents(S) /\ S # {} /\ S \subseteq M BY <1>6, <1>7, OutputsOf DEF M
<1>9. comp' = <<[phase |-> "work", pick |-> c, version |-> current, todo |-> todo, outs |-> {}]>>
  BY <1>2 DEF todo
<1>10. Started(comp'[1], c) BY <1>8, <1>9 DEF Started, M, F
<1>11. comp' # <<>> BY <1>9
<1> QED BY <1>10, <1>11

(* A step keeps what is said of the compaction's inputs.                     *)
LEMMA CompRecordsKept ==
  ASSUME ShapesOK, NotOpenIsQuiet, FilesThere, RecordsOK, DataOK, BoundsOK, Next, comp' # <<>>
  PROVE  /\ PickOK(comp'[1].pick, comp'[1].version)
         /\ \A S \in comp'[1].todo : Contents(S) /\ S # {}
<1>1. CASE StartCompaction
  <2>1. PICK c \in PickCompaction(current) : Started(comp'[1], c) BY <1>1, CompactionStarted
  <2>2. PickOK(c, current) BY PickNow
  <2> QED BY <2>1, <2>2 DEF Started
<1>2. CASE MoveFile
  <2>1. PICK c \in PickCompaction(current) :
          comp' = <<[phase |-> "move", pick |-> c, version |-> current, todo |-> {}, outs |-> {}]>>
    BY <1>2 DEF MoveFile
  <2>2. PickOK(c, current) BY PickNow
  <2> QED BY <2>1, <2>2
<1>3. CASE FinishCompactionOutputFile
  <2>1. comp # <<>> /\ IsCompaction(comp[1]) BY <1>3, WorkingShape DEF FinishCompactionOutputFile
  <2>2. PICK S, f : comp' = <<WithOutput(comp[1], S, f)>>
    BY <1>3 DEF FinishCompactionOutputFile, WithOutput
  <2> DEFINE d == WithOutput(comp[1], S, f)
  <2>3. d.pick = comp[1].pick /\ d.todo = comp[1].todo \ {S} /\ d.version = comp[1].version
    BY <2>1, OutputTaken, OutputAdded
  <2> HIDE DEF d
  <2>4. comp'[1] = d BY <2>2 DEF d
  <2> QED BY <2>1, <2>3, <2>4 DEF RecordsOK
<1>4. CASE InstallCompactionResults
  <2>1. comp # <<>> /\ IsCompaction(comp[1]) BY <1>4, WorkingShape DEF InstallCompactionResults
  <2> DEFINE d == [comp[1] EXCEPT !.phase = "log"]
  <2>2. comp' = <<d>> BY <1>4 DEF InstallCompactionResults
  <2>3. d.pick = comp[1].pick /\ d.todo = comp[1].todo /\ d.version = comp[1].version
    BY <2>1, PhaseOnly, PhaseSet
  <2> HIDE DEF d
  <2>4. comp'[1] = d BY <2>2
  <2> QED BY <2>1, <2>3, <2>4 DEF RecordsOK
<1>5. CASE comp' = comp BY <1>5 DEF RecordsOK
<1> QED BY <1>1, <1>2, <1>3, <1>4, <1>5, CompSteps

(* Every step keeps RecordsOK.                                               *)
LEMMA RecordsKept ==
  ASSUME ShapesOK, NotOpenIsQuiet, FilesThere, CallsOK, DataOK, NumbersOK, BoundsOK, RecordsOK, Next
  PROVE  RecordsOK'
<1> SUFFICES /\ \A i \in 1 .. Len(manifest'.tail) : EditShape(manifest'.tail[i])
             /\ edit' # <<>> => EditShape(edit'[1])
  BY CompRecordsKept DEF RecordsOK, EditShape, PickOK, Contents
<1>0. manifest'.tail = <<>> /\ edit' = <<>> =>
        (\A i \in 1 .. Len(manifest'.tail) : EditShape(manifest'.tail[i])) /\ edit' = <<>>
  BY EmptyIsSeq
<1>1. CASE WriteLevel0Table \/ MoveFile \/ InstallCompactionResults
  <2>1. PICK e : LogRecord(e) /\ RecordGood(e) BY <1>1, GoodRecord
  <2>2. edit' = <<e>> /\ manifest'.tail = Append(manifest.tail, e) BY <2>1, Logged
  <2>3. IsSeq(manifest.tail) BY DEF ShapesOK
  <2>4. /\ Len(manifest'.tail) = Len(manifest.tail) + 1 /\ Len(manifest.tail) \in Nat
        /\ \A i \in 1 .. Len(manifest.tail) + 1 :
             manifest'.tail[i] = IF i = Len(manifest.tail) + 1 THEN e ELSE manifest.tail[i]
    BY <2>2, <2>3, AppendIsSeq
  <2>5. EditShape(e) BY <2>1 DEF RecordGood
  <2>6. \A i \in 1 .. Len(manifest.tail) : EditShape(manifest.tail[i]) BY DEF RecordsOK
  <2> QED BY <2>2, <2>4, <2>5, <2>6
<1>2. CASE FlushInstalled \/ CompactionInstalled
  <2>1. SyncManifest /\ edit' = <<>> BY <1>2 DEF FlushInstalled, CompactionInstalled
  <2> QED BY <1>0, <2>1, Synced
<1>3. CASE Crash
  <2>1. edit' = <<>> /\ \E b : manifest' = [base |-> b, tail |-> <<>>] BY <1>3 DEF Crash
  <2> QED BY <1>0, <2>1
<1>4. CASE Open
  <2> DEFINE r == Recovered
  <2>1. RecoverySound(r) BY RecoverySoundNow
  <2>2. manifest' = manifest /\ edit' = <<OpenRecord(r)>> BY <1>4 DEF Open, OpenRecord
  <2> HIDE DEF r
  <2>3. EditShape(OpenRecord(r)) BY <2>1, OpenRecordShape
  <2> QED BY <2>2, <2>3 DEF RecordsOK
<1>5. CASE OpenInstalled
  <2>1. edit' = <<>> /\ manifest'.tail = <<>> BY <1>5 DEF OpenInstalled
  <2> QED BY <1>0, <2>1
<1>6. CASE Still BY <1>6 DEF Still, RecordsOK
<1> QED BY <1>1, <1>2, <1>3, <1>4, <1>5, <1>6, RecordSteps

(***************************************************************************)
(* The file numbers.                                                        *)
(***************************************************************************)

(* The file numbers never go back, the current log stays and every number in *)
(* use is below the next.                                                    *)
Counts ==
  /\ nextFile' \in Nat /\ nextFile <= nextFile'
  /\ logfileNumber' \in Nat /\ logfileNumber <= logfileNumber'
  /\ up' # "down" => logfileNumber' \in DOMAIN logs' /\ \A n \in DOMAIN logs' : n < nextFile'
  /\ up' = "open" => \A n \in DOMAIN tables' : n \in Nat /\ n < nextFile'

(* Steps that change no file and no number,                                  *)
LEMMA SameCounts ==
  ASSUME NumbersOK, UNCHANGED <<nextFile, logfileNumber, up>>, DOMAIN logs' = DOMAIN logs,
         UNCHANGED tables
  PROVE  Counts
BY DEF NumbersOK, Counts

(* ... that build table nextFile,                                            *)
LEMMA BuildCounts ==
  ASSUME NumbersOK, DataOK, UNCHANGED <<logfileNumber, up, logs>>, nextFile' = nextFile + 1,
         DOMAIN tables' \subseteq DOMAIN tables \cup {nextFile}
  PROVE  Counts
<1>1. /\ nextFile \in Nat /\ logfileNumber \in Nat
      /\ up # "down" => logfileNumber \in DOMAIN logs /\ \A n \in DOMAIN logs : n < nextFile
      /\ up = "open" => \A n \in DOMAIN tables : n \in Nat /\ n < nextFile
  BY DEF NumbersOK
<1>2. \A n \in DOMAIN logs : n \in Nat BY DEF DataOK, LogsTyped
<1>3. up # "down" => \A n \in DOMAIN logs : n < nextFile + 1 BY <1>1, <1>2
<1>4. up = "open" => \A n \in DOMAIN tables' : n \in Nat /\ n < nextFile + 1 BY <1>1
<1> QED BY <1>1, <1>3, <1>4 DEF Counts

(* ... and that delete what is older than log n.                             *)
LEMMA DeleteCounts ==
  ASSUME NumbersOK, DataOK, up = "open", NEW vs, NEW n \in Nat, NEW outs,
         DeleteObsoleteFiles(vs, n, outs), n <= logfileNumber, UNCHANGED <<nextFile, logfileNumber>>
  PROVE  Counts
<1>1. /\ DOMAIN tables' \subseteq DOMAIN tables /\ DOMAIN logs' \subseteq DOMAIN logs
      /\ \A m \in DOMAIN logs : m >= n => m \in DOMAIN logs'
  BY DeletedData DEF DataOK
<1>2. /\ nextFile \in Nat /\ logfileNumber \in Nat
      /\ logfileNumber \in DOMAIN logs /\ \A m \in DOMAIN logs : m < nextFile
      /\ \A m \in DOMAIN tables : m \in Nat /\ m < nextFile
  BY DEF NumbersOK
<1>3. logfileNumber \in DOMAIN logs' BY <1>1, <1>2
<1> QED BY <1>1, <1>2, <1>3 DEF Counts

(* A writer's step,                                                          *)
LEMMA WriterCounts ==
  ASSUME NotOpenIsQuiet, NumbersOK, DataOK, NEW w \in Writers, WriterStep(w)
  PROVE  Counts
<1>0. UNCHANGED <<tables, up>> BY WriterChanges
<1>1. ASSUME NEW j \in budget.jobs, Write(w, j) PROVE Counts
  BY <1>0, <1>1, SameCounts DEF Write, disk, memory
<1>2. CASE MakeRoomFails(w) BY <1>0, <1>2, SameCounts DEF MakeRoomFails, disk, memory
<1>3. CASE MakeRoomWaits(w) BY <1>0, <1>3, SameCounts DEF MakeRoomWaits, disk, memory
<1>4. CASE SwitchMemTable(w)
  <2>1. DOMAIN logs' = DOMAIN logs \cup {nextFile} /\ logfileNumber' = nextFile /\ nextFile' = nextFile + 1
    BY <1>4 DEF SwitchMemTable
  <2>2. /\ nextFile \in Nat /\ logfileNumber \in Nat /\ up = "open"
        /\ logfileNumber \in DOMAIN logs /\ \A n \in DOMAIN logs : n < nextFile
        /\ \A n \in DOMAIN tables : n \in Nat /\ n < nextFile
    BY WriterChanges DEF NumbersOK
  <2>3. \A n \in DOMAIN logs : n \in Nat BY DEF DataOK, LogsTyped
  <2> QED BY <1>0, <2>1, <2>2, <2>3 DEF Counts
<1>5. CASE AddRecord(w)
  <2>1. DOMAIN logs' = DOMAIN logs BY <1>5 DEF AddRecord, AddedRecord
  <2> QED BY <1>0, <1>5, <2>1, SameCounts DEF AddRecord, memory
<1>6. CASE AddRecordFails(w)
  <2>1. DOMAIN logs' = DOMAIN logs BY <1>6 DEF AddRecordFails, AddedRecord
  <2> QED BY <1>0, <1>6, <2>1, SameCounts DEF AddRecordFails
<1>7. CASE SyncFails(w) BY <1>0, <1>7, SameCounts DEF SyncFails, disk
<1>8. CASE SyncAndInsert(w)
  <2>1. DOMAIN logs' = DOMAIN logs BY <1>8 DEF SyncAndInsert
  <2> QED BY <1>0, <1>8, <2>1, SameCounts DEF SyncAndInsert
<1> QED BY <1>1, <1>2, <1>3, <1>4, <1>5, <1>6, <1>7, <1>8 DEF WriterStep

(* What OpenInstalled keeps are files of the state it records.               *)
LEMMA OpenInstalledCounts ==
  ASSUME NotOpenIsQuiet, NumbersOK, RecordsOK, DataOK, OpenInstalled PROVE Counts
<1> DEFINE e == edit[1]
           v == BuilderSaveTo(current, e)
           vs == {v}
<1>1. /\ up = "opening" /\ DeleteObsoleteFiles(vs, e.log, {}) /\ up' = "open"
      /\ UNCHANGED <<nextFile, logfileNumber>>
  BY DEF OpenInstalled
<1>2. edit # <<>> /\ current = manifest.base.files /\ bgError = FALSE BY <1>1 DEF NotOpenIsQuiet
<1> HIDE DEF e, v, vs
<1>3. EditShape(e) BY <1>2 DEF RecordsOK, e
<1>4. /\ nextFile \in Nat /\ logfileNumber \in Nat /\ StateShape(manifest.base)
      /\ logfileNumber \in DOMAIN logs /\ \A m \in DOMAIN logs : m < nextFile
      /\ e.log <= logfileNumber /\ e.next <= nextFile /\ manifest.base.next <= e.next
  BY <1>1, <1>2 DEF NumbersOK, e
<1>5. /\ DOMAIN logs' \subseteq DOMAIN logs
      /\ \A m \in DOMAIN logs : m >= e.log => m \in DOMAIN logs'
      /\ \A m \in DOMAIN tables' : \E u \in vs : \E f \in FilesOf(u) : m = f.number
  BY <1>1, <1>2, DeletedData DEF DataOK
<1>6. e.log \in Nat /\ e.next \in Nat BY <1>3 DEF EditShape
<1>7. logfileNumber \in DOMAIN logs' BY <1>4, <1>5, <1>6
<1>8. ASSUME NEW m \in DOMAIN tables' PROVE m \in Nat /\ m < nextFile
  <2>1. PICK f \in FilesOf(v) : m = f.number BY <1>5 DEF vs
  <2>2. PICK l \in Level : f \in v[l] BY <2>1 DEF FilesOf
  <2>3. Saved(current, e, l, f) BY <2>2, SavedLevel DEF v
  <2>4. CASE f \in current[l]
    <3>1. f.number \in Nat /\ f.number < manifest.base.next /\ manifest.base.next \in Nat
      BY <1>2, <1>4, <2>4 DEF StateShape
    <3> QED BY <1>4, <1>6, <2>1, <3>1
  <2>5. CASE \E a \in e.add : f = a[2]
    <3>1. f.number \in Nat /\ f.number < e.next BY <1>3, <2>5 DEF EditShape
    <3> QED BY <1>4, <1>6, <2>1, <3>1
  <2> QED BY <2>3, <2>4, <2>5 DEF Saved
<1> QED BY <1>1, <1>4, <1>5, <1>7, <1>8 DEF Counts

(* ... and so every step of an open database.                                *)
LEMMA CountsKept ==
  ASSUME ShapesOK, NotOpenIsQuiet, NumbersOK, RecordsOK, DataOK, Next, ~Crash, ~Open
  PROVE  Counts
<1>1. ASSUME NEW w \in Writers, WriterStep(w) PROVE Counts BY <1>1, WriterCounts
<1>2. CASE ReaderStep
  <2>1. UNCHANGED <<logs, tables, nextFile, logfileNumber, up>>
    BY <1>2, ReaderKeepsCalls DEF disk, memory
  <2> QED BY <2>1, SameCounts
<1>3. CASE WriteLevel0Table
  <2>1. DOMAIN tables' \subseteq DOMAIN tables \cup {nextFile} BY <1>3 DEF WriteLevel0Table
  <2> QED BY <1>3, <2>1, BuildCounts DEF WriteLevel0Table
<1>4. CASE FlushFails
  <2>1. DOMAIN tables' \subseteq DOMAIN tables \cup {nextFile} BY <1>4 DEF FlushFails, disk
  <2> QED BY <1>4, <2>1, BuildCounts, SameCounts DEF FlushFails, disk
<1>5. CASE BackgroundCallStops BY <1>5, SameCounts DEF BackgroundCallStops, disk, memory
<1>6. CASE StartCompaction BY <1>6, SameCounts DEF StartCompaction, disk, memory
<1>7. CASE MoveFile BY <1>7, SameCounts DEF MoveFile, memory
<1>8. CASE FinishCompactionOutputFile
  <2>1. DOMAIN tables' \subseteq DOMAIN tables \cup {nextFile} BY <1>8 DEF FinishCompactionOutputFile
  <2> QED BY <1>8, <2>1, BuildCounts DEF FinishCompactionOutputFile
<1>9. CASE InstallCompactionResults BY <1>9, SameCounts DEF InstallCompactionResults, memory
<1>10. CASE CompactionFails BY <1>10, SameCounts DEF CompactionFails, disk, memory
<1>e. edit # <<>> => edit[1].log \in Nat /\ edit[1].log <= logfileNumber
  BY DEF NumbersOK, RecordsOK, EditShape
<1>11. CASE FlushInstalled
  <2>1. up = "open" BY <1>11, BackgroundIsOpen DEF BackgroundStep
  <2>2. edit # <<>> /\ UNCHANGED <<nextFile, logfileNumber>>
    BY <1>11 DEF FlushInstalled, Flushing
  <2>3. \E vs, outs : DeleteObsoleteFiles(vs, edit[1].log, outs) BY <1>11 DEF FlushInstalled
  <2> QED BY <1>e, <2>1, <2>2, <2>3, DeleteCounts
<1>12. CASE CompactionInstalled
  <2>1. up = "open" /\ up' = "open" BY <1>12, BackgroundIsOpen DEF BackgroundStep
  <2>2. edit # <<>> /\ UNCHANGED <<nextFile, logfileNumber>>
    BY <1>12 DEF CompactionInstalled, Installing
  <2>3. UNCHANGED <<tables, logs>> \/ \E vs, outs : DeleteObsoleteFiles(vs, edit[1].log, outs)
    BY <1>12 DEF CompactionInstalled
  <2> QED BY <1>e, <2>1, <2>2, <2>3, DeleteCounts, SameCounts
<1>13. CASE OpenInstalled BY <1>13, OpenInstalledCounts
<1> QED BY <1>1, <1>2, <1>3, <1>4, <1>5, <1>6, <1>7, <1>8, <1>9, <1>10, <1>11, <1>12, <1>13
        DEF Next, BackgroundStep

(* The records es, n of them, follow state st: their shapes are right and    *)
(* their counters in order.                                                  *)
Follow(st, es, n) ==
  /\ \A i \in 1 .. n : EditShape(es[i]) /\ st.next <= es[i].next
  /\ \A i, j \in 1 .. n : i <= j => es[i].next <= es[j].next

(* The state they give has the right shape, and the counter of one of them.  *)
LEMMA StateAfter ==
  ASSUME NEW st, StateShape(st), NEW es, NEW n \in Nat, DOMAIN es = 1 .. n, Follow(st, es, n)
  PROVE  /\ StateShape(AppliedAll(st, es))
         /\ AppliedAll(st, es).next = st.next \/ \E i \in 1 .. n : AppliedAll(st, es).next = es[i].next
<1> DEFINE new == AppliedAll(st, es)
<1>1. CASE n = 0
  <2>1. new = st BY <1>1, AppliedAllCounters
  <2> QED BY <2>1
<1>2. CASE n # 0
  <2>0. n \in 1 .. n BY <1>2
  <2>1. new.log = es[n].log /\ new.next = es[n].next /\ new.seq = es[n].seq
    BY <1>2, AppliedAllCounters
  <2>2. EditShape(es[n]) BY <2>0 DEF Follow
  <2>3. ComesFrom(new.files, st.files, es, n) BY AppliedAllComesFrom
  <2> HIDE DEF new
  <2>4. ASSUME NEW l \in Level, NEW f \in new.files[l] PROVE f.number \in Nat /\ f.number < new.next
    <3>0. new.next \in Nat BY <2>1, <2>2 DEF EditShape
    <3>1. CASE f \in FilesOf(st.files)
      <4>1. PICK m \in Level : f \in st.files[m] BY <3>1 DEF FilesOf
      <4>2. f.number \in Nat /\ f.number < st.next /\ st.next \in Nat BY <4>1 DEF StateShape
      <4>3. st.next <= es[n].next BY <2>0 DEF Follow
      <4> QED BY <2>1, <3>0, <4>2, <4>3
    <3>2. CASE AddedBy(f, es, n)
      <4>1. PICK i \in 1 .. n : \E a \in es[i].add : f = a[2] BY <3>2 DEF AddedBy
      <4>2. f.number \in Nat /\ f.number < es[i].next /\ es[i].next \in Nat
        BY <4>1 DEF Follow, EditShape
      <4>3. i <= n /\ es[i].next <= es[n].next BY <2>0 DEF Follow
      <4> QED BY <2>1, <3>0, <4>2, <4>3
    <3> QED BY <2>3, <3>1, <3>2 DEF ComesFrom
  <2>5. StateShape(new) BY <2>1, <2>2, <2>4 DEF StateShape, EditShape
  <2> QED BY <2>0, <2>1, <2>5 DEF new
<1> QED BY <1>1, <1>2

(* A manifest of only synced records.                                        *)
LEMMA NoTailOrdered ==
  ASSUME NEW m, m.tail = <<>> PROVE TailOrdered(m)
BY EmptyIsSeq DEF TailOrdered

(* The records of the manifest follow its base,                              *)
LEMMA TailFollows ==
  ASSUME ShapesOK, RecordsOK, NumbersOK
  PROVE  /\ Len(manifest.tail) \in Nat /\ DOMAIN manifest.tail = 1 .. Len(manifest.tail)
         /\ Follow(manifest.base, manifest.tail, Len(manifest.tail))
<1>1. IsSeq(manifest.tail) BY DEF ShapesOK
<1>2. Len(manifest.tail) \in Nat /\ DOMAIN manifest.tail = 1 .. Len(manifest.tail)
  BY <1>1, AppendIsSeq
<1> QED BY <1>2 DEF Follow, RecordsOK, NumbersOK, TailOrdered

(* ... and those a crash leaves,                                             *)
LEMMA PrefixFollows ==
  ASSUME ShapesOK, RecordsOK, NumbersOK, NEW t \in 0 .. Len(manifest.tail)
  PROVE  LET es == SubSeq(manifest.tail, 1, t)
         IN  /\ t \in Nat /\ DOMAIN es = 1 .. t /\ Follow(manifest.base, es, t)
             /\ \A i \in 1 .. t : es[i] = manifest.tail[i]
<1> DEFINE T == manifest.tail
           es == SubSeq(T, 1, t)
<1>1. Len(T) \in Nat /\ Follow(manifest.base, T, Len(T)) BY TailFollows
<1>2. IsSeq(T) BY DEF ShapesOK
<1>3. t \in Nat /\ DOMAIN es = 1 .. t /\ \A i \in 1 .. t : es[i] = T[i]
  <2>1. T \in Seq(Range(T)) BY <1>2 DEF IsSeq
  <2> HIDE DEF T
  <2> QED BY <2>1
<1>4. \A i \in 1 .. t : i \in 1 .. Len(T) BY <1>1
<1> HIDE DEF T, es
<1>5. Follow(manifest.base, es, t) BY <1>1, <1>3, <1>4 DEF Follow
<1> QED BY <1>3, <1>5 DEF T, es

(* Every step leaves a manifest of right shape.                              *)
LEMMA ManifestNumbers ==
  ASSUME ShapesOK, NotOpenIsQuiet, FilesThere, CallsOK, DataOK, NumbersOK, BoundsOK, RecordsOK, Next
  PROVE  StateShape(manifest'.base) /\ TailOrdered(manifest')
<1>0. StateShape(manifest.base) /\ TailOrdered(manifest) BY DEF NumbersOK
<1>1. CASE WriteLevel0Table \/ MoveFile \/ InstallCompactionResults
  <2>1. PICK e : LogRecord(e) /\ RecordGood(e) BY <1>1, GoodRecord
  <2>2. manifest'.base = manifest.base /\ manifest'.tail = Append(manifest.tail, e) BY <2>1, Logged
  <2>3. IsSeq(manifest.tail) BY DEF ShapesOK
  <2> DEFINE T == manifest.tail
             U == manifest'.tail
             N == Len(T)
             M == Len(U)
  <2>4. M = N + 1 /\ N \in Nat /\ \A i \in 1 .. N + 1 : U[i] = IF i = N + 1 THEN e ELSE T[i]
    BY <2>2, <2>3, AppendIsSeq
  <2>5. up = "open" BY <1>1, BackgroundIsOpen DEF BackgroundStep
  <2>6. /\ manifest.base.next <= nextFile /\ nextFile \in Nat /\ manifest.base.next \in Nat
        /\ \A i \in 1 .. N : T[i].next <= nextFile /\ T[i].next \in Nat /\ manifest.base.next <= T[i].next
    BY <2>5 DEF NumbersOK, RecordsOK, EditShape, StateShape, TailOrdered
  <2>7. nextFile <= e.next /\ e.next \in Nat BY <2>1 DEF RecordGood, EditShape
  <2>8. \A i, j \in 1 .. N : i <= j => T[i].next <= T[j].next BY <1>0 DEF TailOrdered
  <2> HIDE DEF T, U, N, M
  <2>9. \A i \in 1 .. M : manifest.base.next <= U[i].next
    BY <2>4, <2>6, <2>7
  <2>10. \A i, j \in 1 .. M : i <= j => U[i].next <= U[j].next
    BY <2>4, <2>6, <2>7, <2>8
  <2>11. TailOrdered(manifest') BY <2>2, <2>9, <2>10 DEF TailOrdered, U, M
  <2> QED BY <1>0, <2>2, <2>11
<1>2. CASE FlushInstalled \/ CompactionInstalled
  <2>1. SyncManifest BY <1>2 DEF FlushInstalled, CompactionInstalled
  <2>2. manifest'.base = AppliedAll(manifest.base, manifest.tail) /\ manifest'.tail = <<>>
    BY <2>1, Synced
  <2> QED BY <1>0, <2>2, TailFollows, StateAfter, NoTailOrdered
<1>3. CASE Crash
  <2>1. PICK t \in 0 .. Len(manifest.tail) :
          manifest' = [base |-> AppliedAll(manifest.base, SubSeq(manifest.tail, 1, t)), tail |-> <<>>]
    BY <1>3 DEF Crash
  <2> DEFINE es == SubSeq(manifest.tail, 1, t)
  <2>2. t \in Nat /\ DOMAIN es = 1 .. t /\ Follow(manifest.base, es, t) BY PrefixFollows
  <2>3. manifest'.base = AppliedAll(manifest.base, es) /\ manifest'.tail = <<>> BY <2>1
  <2> HIDE DEF es
  <2> QED BY <1>0, <2>2, <2>3, StateAfter, NoTailOrdered
<1>4. CASE Open BY <1>0, <1>4 DEF Open
<1>5. CASE OpenInstalled
  <2> DEFINE e == edit[1]
             es == <<e>>
  <2>1. manifest'.base = Applied(manifest.base, e) /\ manifest'.tail = <<>> BY <1>5 DEF OpenInstalled
  <2>2. edit # <<>> BY <1>5 DEF OpenInstalled, NotOpenIsQuiet
  <2>3. EditShape(e) /\ manifest.base.next <= e.next BY <2>2 DEF RecordsOK, NumbersOK
  <2> HIDE DEF e
  <2>4. DOMAIN es = 1 .. 1 /\ 1 \in Nat /\ \A i \in 1 .. 1 : es[i] = e OBVIOUS
  <2>5. AppliedAll(manifest.base, es) = Applied(manifest.base, e) BY AppliedAllOne
  <2> HIDE DEF es
  <2>6. e.next <= e.next BY <2>3 DEF EditShape
  <2>7. Follow(manifest.base, es, 1) BY <2>3, <2>4, <2>6 DEF Follow
  <2>8. StateShape(AppliedAll(manifest.base, es)) BY <1>0, <2>4, <2>7, StateAfter
  <2> QED BY <2>1, <2>5, <2>8, NoTailOrdered
<1>6. CASE Still BY <1>0, <1>6 DEF Still
<1> QED BY <1>1, <1>2, <1>3, <1>4, <1>5, <1>6, RecordSteps

(* Opening: what Recover found.                                              *)
LEMMA OpenNumbers ==
  ASSUME ShapesOK, NotOpenIsQuiet, DataOK, NumbersOK, Open,
         StateShape(manifest'.base), TailOrdered(manifest')
  PROVE  NumbersOK'
<1> DEFINE r == Recovered
<1>1. RecoverySound(r) /\ \A n \in DOMAIN logs : n < r.next BY RecoverySoundNow
<1>2. /\ up = "down" /\ up' = "opening" /\ manifest' = manifest /\ DOMAIN logs' = DOMAIN logs \cup {r.next}
      /\ logfileNumber' = r.next /\ logNumber' = manifest.base.log /\ nextFile' = r.next + 1
      /\ edit' = <<OpenRecord(r)>>
  BY DEF Open, OpenRecord
<1> HIDE DEF r
<1>3. manifest.tail = <<>> BY <1>2 DEF NotOpenIsQuiet
<1>4. r.next \in Nat /\ manifest.base.next < r.next BY <1>1 DEF RecoverySound
<1>5. manifest.base.log \in Nat /\ manifest.base.next \in Nat /\ manifest.base.log < manifest.base.next
  BY DEF NumbersOK, StateShape
<1>6. \A n \in DOMAIN logs : n \in Nat BY DEF DataOK, LogsTyped
<1>7. \A n \in DOMAIN logs' : n < nextFile' BY <1>1, <1>2, <1>4, <1>6
<1>8. \A i \in 1 .. Len(manifest'.tail) : manifest'.tail[i].next <= nextFile'
  BY <1>2, <1>3, EmptyIsSeq
<1> DEFINE e == OpenRecord(r)
<1>9. e.log = r.next /\ e.next = r.next + 1 BY DEF OpenRecord
<1>10. edit'[1] = e BY <1>2
<1> HIDE DEF e
<1>11. logNumber' <= edit'[1].log /\ edit'[1].log <= logfileNumber'
  BY <1>2, <1>4, <1>5, <1>9, <1>10
<1>12. manifest'.base.next <= edit'[1].next /\ edit'[1].next <= nextFile'
  BY <1>2, <1>4, <1>5, <1>9, <1>10
<1>13. logNumber' <= logfileNumber' /\ manifest'.base.next <= nextFile' BY <1>2, <1>4, <1>5
<1>14. /\ nextFile' \in Nat /\ logfileNumber' \in Nat /\ logNumber' \in Nat /\ logfileNumber' \in DOMAIN logs'
       /\ up' # "open" /\ up' # "down"
  BY <1>2, <1>4, <1>5
<1> QED BY <1>7, <1>8, <1>11, <1>12, <1>13, <1>14 DEF NumbersOK

(* An installed version: the record becomes part of the base.                *)
LEMMA InstallNumbers ==
  ASSUME ShapesOK, RecordsOK, NumbersOK, Counts, StateShape(manifest'.base), manifest'.tail = <<>>,
         edit # <<>>, edit' = <<>>, up # "down", up' = "open", logNumber' = edit[1].log,
         \/ manifest'.base = AppliedAll(manifest.base, manifest.tail)
         \/ manifest'.base.next = edit[1].next
  PROVE  NumbersOK'
<1>1. TailOrdered(manifest') BY NoTailOrdered
<1>2. EditShape(edit[1]) /\ edit[1].log <= logfileNumber /\ logfileNumber \in Nat
      /\ nextFile \in Nat /\ edit[1].next <= nextFile
  BY DEF RecordsOK, NumbersOK
<1>3. manifest'.base.next <= nextFile
  <2>1. CASE manifest'.base.next = edit[1].next BY <1>2, <2>1
  <2>2. CASE manifest'.base = AppliedAll(manifest.base, manifest.tail)
    <3>1. \/ manifest'.base.next = manifest.base.next
          \/ \E i \in 1 .. Len(manifest.tail) : manifest'.base.next = manifest.tail[i].next
      BY <2>2, TailFollows, StateAfter DEF NumbersOK
    <3> QED BY <3>1 DEF NumbersOK
  <2> QED BY <2>1, <2>2
<1>4. /\ nextFile' \in Nat /\ nextFile <= nextFile' /\ logfileNumber' \in Nat
      /\ logfileNumber <= logfileNumber'
      /\ logfileNumber' \in DOMAIN logs' /\ \A n \in DOMAIN logs' : n < nextFile'
      /\ \A n \in DOMAIN tables' : n \in Nat /\ n < nextFile'
  BY DEF Counts
<1>5. manifest'.base.next \in Nat BY DEF StateShape
<1>6. manifest'.base.next <= nextFile' BY <1>2, <1>3, <1>4, <1>5
<1>7. logNumber' \in Nat /\ logNumber' <= logfileNumber' BY <1>2, <1>4 DEF EditShape
<1>8. \A i \in 1 .. Len(manifest'.tail) : manifest'.tail[i].next <= nextFile' BY EmptyIsSeq
<1> QED BY <1>1, <1>4, <1>6, <1>7, <1>8 DEF NumbersOK

(* A record is written.                                                      *)
LEMMA RecordNumbers ==
  ASSUME ShapesOK, NotOpenIsQuiet, RecordsOK, NumbersOK, Counts, NEW e, LogRecord(e), RecordGood(e),
         up = "open", up' = "open", UNCHANGED logNumber,
         StateShape(manifest'.base), TailOrdered(manifest')
  PROVE  NumbersOK'
<1>1. /\ manifest'.base = manifest.base /\ manifest'.tail = Append(manifest.tail, e) /\ edit' = <<e>>
  BY Logged
<1> DEFINE T == manifest.tail
           U == manifest'.tail
           N == Len(T)
           M == Len(U)
<1>2. IsSeq(T) BY DEF ShapesOK
<1>3. M = N + 1 /\ N \in Nat /\ \A i \in 1 .. N + 1 : U[i] = IF i = N + 1 THEN e ELSE T[i]
  BY <1>1, <1>2, AppendIsSeq
<1>4. /\ nextFile' \in Nat /\ nextFile <= nextFile' /\ logfileNumber' \in Nat
      /\ logfileNumber <= logfileNumber'
      /\ logfileNumber' \in DOMAIN logs' /\ \A n \in DOMAIN logs' : n < nextFile'
      /\ \A n \in DOMAIN tables' : n \in Nat /\ n < nextFile'
  BY DEF Counts
<1>5. /\ manifest.base.next <= nextFile /\ nextFile \in Nat /\ manifest.base.next \in Nat
      /\ logNumber \in Nat /\ logfileNumber \in Nat /\ logNumber <= logfileNumber
      /\ \A i \in 1 .. N : T[i].next <= nextFile /\ T[i].next \in Nat
  BY DEF NumbersOK, RecordsOK, EditShape, StateShape
<1>6. /\ logNumber <= e.log /\ e.log <= logfileNumber /\ nextFile <= e.next /\ e.next <= nextFile'
      /\ e.next \in Nat /\ e.log \in Nat
  BY DEF RecordGood, EditShape
<1> HIDE DEF T, U, N, M
<1>7. \A i \in 1 .. M : U[i].next <= nextFile' BY <1>3, <1>4, <1>5, <1>6
<1>8. U[M] = e /\ M # 0 BY <1>3
<1>9. U # <<>> BY <1>8, EmptyIsSeq DEF M
<1>10. edit'[1] = e BY <1>1
<1>11. logNumber' <= edit'[1].log /\ edit'[1].log <= logfileNumber' /\ logNumber' <= logfileNumber'
  BY <1>4, <1>5, <1>6, <1>10
<1>12. manifest'.base.next <= edit'[1].next /\ edit'[1].next <= nextFile' /\ manifest'.base.next <= nextFile'
  BY <1>1, <1>4, <1>5, <1>6, <1>10
<1>13. manifest'.tail[Len(manifest'.tail)] = edit'[1] /\ manifest'.tail # <<>>
  BY <1>8, <1>9, <1>10 DEF U, M
<1>14. \A i \in 1 .. Len(manifest'.tail) : manifest'.tail[i].next <= nextFile' BY <1>7 DEF U, M
<1> QED BY <1>4, <1>5, <1>11, <1>12, <1>13, <1>14 DEF NumbersOK

(* Every step keeps NumbersOK.                                               *)
LEMMA NumbersKept ==
  ASSUME ShapesOK, NotOpenIsQuiet, FilesThere, CallsOK, DataOK, NumbersOK, BoundsOK, RecordsOK, Next
  PROVE  NumbersOK'
<1>0. StateShape(manifest'.base) /\ TailOrdered(manifest') BY ManifestNumbers
<1>1. CASE WriteLevel0Table \/ MoveFile \/ InstallCompactionResults
  <2>1. PICK e : LogRecord(e) /\ RecordGood(e) BY <1>1, GoodRecord
  <2>2. up = "open" /\ up' = "open" BY <1>1, BackgroundIsOpen DEF BackgroundStep
  <2>3. UNCHANGED logNumber
    BY <1>1 DEF WriteLevel0Table, MoveFile, InstallCompactionResults, memory
  <2>4. ~Crash /\ ~Open BY <2>2 DEF Crash, Open
  <2>5. Counts BY <2>4, CountsKept
  <2> QED BY <1>0, <2>1, <2>2, <2>3, <2>5, RecordNumbers
<1>2. CASE FlushInstalled \/ CompactionInstalled
  <2>1. up = "open" /\ up' = "open" BY <1>2, BackgroundIsOpen DEF BackgroundStep
  <2>2. SyncManifest /\ edit # <<>> /\ edit' = <<>> /\ logNumber' = edit[1].log
    BY <1>2 DEF FlushInstalled, CompactionInstalled, Flushing, Installing
  <2>3. manifest'.base = AppliedAll(manifest.base, manifest.tail) /\ manifest'.tail = <<>>
    BY <2>2, Synced
  <2>4. ~Crash /\ ~Open BY <2>1 DEF Crash, Open
  <2>5. Counts BY <2>4, CountsKept
  <2> QED BY <1>0, <2>1, <2>2, <2>3, <2>5, InstallNumbers
<1>3. CASE Crash
  <2>1. /\ up' = "down" /\ nextFile' = 0 /\ logfileNumber' = 0 /\ logNumber' = 0 /\ edit' = <<>>
        /\ current' = NoFiles
    BY <1>3 DEF Crash
  <2> QED BY <1>0, <2>1 DEF NumbersOK
<1>4. CASE Open BY <1>0, <1>4, OpenNumbers
<1>5. CASE OpenInstalled
  <2>1. /\ up = "opening" /\ up' = "open" /\ edit' = <<>> /\ logNumber' = edit[1].log
        /\ manifest' = [base |-> Applied(manifest.base, edit[1]), tail |-> <<>>]
    BY <1>5 DEF OpenInstalled
  <2>2. manifest'.tail = <<>> /\ manifest'.base.next = edit[1].next BY <2>1 DEF Applied
  <2>3. edit # <<>> /\ up # "down" BY <2>1 DEF NotOpenIsQuiet
  <2>4. ~Crash /\ ~Open BY <2>1 DEF Crash, Open
  <2>5. Counts BY <2>4, CountsKept
  <2> QED BY <1>0, <2>1, <2>2, <2>3, <2>5, InstallNumbers
<1>6. CASE Still /\ ~Crash /\ ~Open
  <2>1. Counts BY <1>6, CountsKept
  <2>2. /\ UNCHANGED <<manifest, up, current, logNumber>> /\ edit' \in {edit, <<>>} BY <1>6 DEF Still
  <2>3. /\ nextFile' \in Nat /\ nextFile <= nextFile' /\ logfileNumber' \in Nat
        /\ logfileNumber <= logfileNumber'
        /\ up # "down" => logfileNumber' \in DOMAIN logs' /\ \A n \in DOMAIN logs' : n < nextFile'
        /\ up = "open" => \A n \in DOMAIN tables' : n \in Nat /\ n < nextFile'
    BY <2>1, <2>2 DEF Counts
  <2>4. nextFile \in Nat /\ logfileNumber \in Nat /\ logNumber \in Nat /\ manifest.base.next \in Nat
    BY DEF NumbersOK, StateShape
  <2>5. up # "down" => /\ logNumber <= logfileNumber' /\ manifest.base.next <= nextFile'
                       /\ \A i \in 1 .. Len(manifest.tail) : manifest.tail[i].next <= nextFile'
    <3>1. \A i \in 1 .. Len(manifest.tail) : manifest.tail[i].next \in Nat BY DEF RecordsOK, EditShape
    <3>2. up # "down" => /\ logNumber <= logfileNumber /\ manifest.base.next <= nextFile
                         /\ \A i \in 1 .. Len(manifest.tail) : manifest.tail[i].next <= nextFile
      BY DEF NumbersOK
    <3> QED BY <2>3, <2>4, <3>1, <3>2
  <2>6. edit # <<>> => /\ logNumber <= edit[1].log /\ edit[1].log <= logfileNumber'
                       /\ manifest.base.next <= edit[1].next /\ edit[1].next <= nextFile'
    <3>1. edit # <<>> => /\ logNumber <= edit[1].log /\ edit[1].log <= logfileNumber
                         /\ manifest.base.next <= edit[1].next /\ edit[1].next <= nextFile
      BY DEF NumbersOK
    <3>2. edit # <<>> => edit[1].log \in Nat /\ edit[1].next \in Nat BY DEF RecordsOK, EditShape
    <3> QED BY <2>3, <2>4, <3>1, <3>2
  <2>7. /\ up = "open" /\ edit # <<>> => /\ manifest.tail # <<>>
                                         /\ manifest.tail[Len(manifest.tail)] = edit[1]
        /\ up = "down" => current = NoFiles
    BY DEF NumbersOK
  <2> QED BY <1>0, <2>2, <2>3, <2>4, <2>5, <2>6, <2>7 DEF NumbersOK
<1> QED BY <1>1, <1>2, <1>3, <1>4, <1>5, <1>6, RecordSteps

(***************************************************************************)
(* The bounds are kept.                                                     *)
(***************************************************************************)

(* A version made by a record has the bounds of the one before and of the    *)
(* record's files.                                                           *)
LEMMA SavedBounds ==
  ASSUME NEW v, NEW e, NEW ts, VersionBounds(v, ts), EditBounds(e, ts)
  PROVE  VersionBounds(BuilderSaveTo(v, e), ts)
<1> SUFFICES ASSUME NEW l \in Level, NEW f \in BuilderSaveTo(v, e)[l] PROVE FileOK(f, ts)
  BY DEF VersionBounds
<1>1. Saved(v, e, l, f) BY SavedLevel
<1> QED BY <1>1 DEF Saved, VersionBounds, EditBounds

(* ... and so one made by several.                                           *)
LEMMA AppliedBounds ==
  ASSUME NEW st, NEW es, NEW n \in Nat, DOMAIN es = 1 .. n, NEW ts, VersionBounds(st.files, ts),
         \A i \in 1 .. n : EditBounds(es[i], ts)
  PROVE  VersionBounds(AppliedAll(st, es).files, ts)
<1> DEFINE v == AppliedAll(st, es).files
<1>1. ComesFrom(v, st.files, es, n) BY AppliedAllComesFrom
<1> HIDE DEF v
<1> SUFFICES ASSUME NEW l \in Level, NEW f \in v[l] PROVE FileOK(f, ts)
  BY DEF VersionBounds, v
<1>2. CASE f \in FilesOf(st.files)
  <2>1. PICK m \in Level : f \in st.files[m] BY <1>2 DEF FilesOf
  <2> QED BY <2>1 DEF VersionBounds
<1>3. CASE AddedBy(f, es, n)
  <2>1. PICK i \in 1 .. n : \E a \in es[i].add : f = a[2] BY <1>3 DEF AddedBy
  <2> QED BY <2>1 DEF EditBounds
<1> QED BY <1>1, <1>2, <1>3 DEF ComesFrom

(* The files of a compaction keep their bounds.                              *)
LEMMA CompBoundsKept ==
  ASSUME ShapesOK, NotOpenIsQuiet, FilesThere, RecordsOK, NumbersOK, DataOK, BoundsOK, Next, ~Open,
         comp' # <<>>
  PROVE  CompBounds(comp'[1], tables')
<1>k. KeepsBounds BY BoundsStay
<1>c. VersionBounds(current, tables') BY <1>k, KeptBounds DEF FilesThere, BoundsOK
<1>o. comp # <<>> => CompBounds(comp[1], tables') BY <1>k, KeptBounds DEF FilesThere, BoundsOK
<1>1. CASE StartCompaction
  <2>1. PICK c \in PickCompaction(current) : Started(comp'[1], c) BY <1>1, CompactionStarted
  <2> QED BY <1>c, <2>1 DEF Started, CompBounds
<1>2. CASE MoveFile
  <2>1. PICK c : comp' = <<[phase |-> "move", pick |-> c, version |-> current, todo |-> {}, outs |-> {}]>>
    BY <1>2 DEF MoveFile
  <2>2. comp'[1].version = current /\ comp'[1].outs = {} BY <2>1
  <2> QED BY <1>c, <2>2 DEF CompBounds
<1>3. CASE FinishCompactionOutputFile
  <2>1. comp # <<>> /\ IsCompaction(comp[1]) BY <1>3, WorkingShape DEF FinishCompactionOutputFile
  <2>2. PICK S \in comp[1].todo :
          /\ comp' = <<WithOutput(comp[1], S, FileMetaData(nextFile, S))>>
          /\ tables' = WithTable(tables, nextFile, S)
    BY <1>3 DEF FinishCompactionOutputFile, WithOutput, WithTable
  <2> DEFINE f == FileMetaData(nextFile, S)
             d == WithOutput(comp[1], S, f)
  <2>3. d.version = comp[1].version /\ d.outs = comp[1].outs \cup {f} BY <2>1, OutputAdded
  <2>4. Contents(S) /\ S # {} /\ nextFile \in Nat BY <2>1 DEF RecordsOK, NumbersOK
  <2>5. FileOK(f, tables') BY <2>2, <2>4, BuiltFile
  <2> HIDE DEF d
  <2>6. comp'[1] = d BY <2>2 DEF d
  <2> HIDE DEF f
  <2> QED BY <1>o, <2>1, <2>3, <2>5, <2>6 DEF CompBounds
<1>4. CASE InstallCompactionResults
  <2>1. comp # <<>> /\ IsCompaction(comp[1]) BY <1>4, WorkingShape DEF InstallCompactionResults
  <2> DEFINE d == [comp[1] EXCEPT !.phase = "log"]
  <2>2. comp' = <<d>> BY <1>4 DEF InstallCompactionResults
  <2>3. d.version = comp[1].version /\ d.outs = comp[1].outs BY <2>1, PhaseSet
  <2> HIDE DEF d
  <2>4. comp'[1] = d BY <2>2
  <2> QED BY <1>o, <2>1, <2>3, <2>4 DEF CompBounds
<1>5. CASE comp' = comp BY <1>5, <1>o
<1> QED BY <1>1, <1>2, <1>3, <1>4, <1>5, CompSteps

(* Open replaces no table the manifest names.                                *)
LEMMA OpenBounds ==
  ASSUME ShapesOK, NotOpenIsQuiet, DataOK, NumbersOK, BoundsOK, Open PROVE BoundsOK'
<1> DEFINE r == Recovered
<1>1. RecoverySound(r) BY RecoverySoundNow
<1>2. /\ up = "down" /\ manifest' = manifest /\ tables' = r.tables /\ current' = manifest.base.files
      /\ edit' = <<OpenRecord(r)>> /\ comp' = comp
  BY DEF Open, OpenRecord
<1> HIDE DEF r
<1>3. manifest.tail = <<>> /\ comp = <<>> BY <1>2 DEF NotOpenIsQuiet
<1> DEFINE v == manifest.base.files
           next == manifest.base.next
<1>4. ASSUME NEW l \in Level, NEW f \in v[l] PROVE FileOK(f, tables')
  <2>1. f.number \in Nat /\ f.number < next /\ next \in Nat BY DEF NumbersOK, StateShape
  <2>2. f.number <= next BY <2>1
  <2>3. TableIn(r.tables, f.number) = TableIn(tables, f.number) BY <1>1, <2>1, <2>2 DEF RecoverySound
  <2>4. FileOK(f, tables) BY DEF BoundsOK, VersionBounds
  <2> QED BY <1>2, <2>3, <2>4, OtherTable
<1>5. VersionBounds(v, tables') BY <1>4 DEF VersionBounds
<1> DEFINE e == OpenRecord(r)
<1>6. e.add = r.add BY DEF OpenRecord
<1>7. edit'[1] = e BY <1>2
<1> HIDE DEF e
<1>8. EditBounds(edit'[1], tables') BY <1>1, <1>2, <1>6, <1>7 DEF EditBounds, RecoverySound, AddedOK
<1> QED BY <1>2, <1>3, <1>5, <1>8, EmptyIsSeq DEF BoundsOK

(* Every step keeps BoundsOK.                                                *)
LEMMA BoundsKept ==
  ASSUME ShapesOK, NotOpenIsQuiet, FilesThere, CallsOK, DataOK, NumbersOK, BoundsOK, RecordsOK, Next
  PROVE  BoundsOK'
<1>0. CASE Open BY <1>0, OpenBounds
<1> SUFFICES ASSUME ~Open PROVE BoundsOK' BY <1>0
<1>k. KeepsBounds BY BoundsStay
<1>c. VersionBounds(current, tables') BY <1>k, KeptBounds DEF FilesThere, BoundsOK
<1>b. VersionBounds(manifest.base.files, tables') BY <1>k, KeptBounds DEF FilesThere, BoundsOK
<1>t. \A i \in 1 .. Len(manifest.tail) : EditBounds(manifest.tail[i], tables')
  BY <1>k, KeptBounds DEF FilesThere, BoundsOK
<1>e. edit # <<>> => EditBounds(edit[1], tables') BY <1>k, KeptBounds DEF FilesThere, BoundsOK
<1>p. comp' # <<>> => CompBounds(comp'[1], tables') BY CompBoundsKept
<1>1. CASE WriteLevel0Table \/ MoveFile \/ InstallCompactionResults
  <2>1. PICK e : LogRecord(e) /\ RecordGood(e) BY <1>1, GoodRecord
  <2>2. edit' = <<e>> /\ manifest'.base = manifest.base /\ manifest'.tail = Append(manifest.tail, e)
    BY <2>1, Logged
  <2>3. current' = current BY <1>1, LoggedRecord
  <2>4. IsSeq(manifest.tail) BY DEF ShapesOK
  <2>5. /\ Len(manifest'.tail) = Len(manifest.tail) + 1 /\ Len(manifest.tail) \in Nat
        /\ \A i \in 1 .. Len(manifest.tail) + 1 :
             manifest'.tail[i] = IF i = Len(manifest.tail) + 1 THEN e ELSE manifest.tail[i]
    BY <2>2, <2>4, AppendIsSeq
  <2>6. EditBounds(e, tables') BY <2>1 DEF RecordGood
  <2>7. \A i \in 1 .. Len(manifest'.tail) : EditBounds(manifest'.tail[i], tables') BY <1>t, <2>5, <2>6
  <2>8. edit'[1] = e BY <2>2
  <2> QED BY <1>c, <1>b, <1>p, <2>2, <2>3, <2>6, <2>7, <2>8 DEF BoundsOK
<1>2. CASE FlushInstalled \/ CompactionInstalled
  <2>1. /\ SyncManifest /\ edit # <<>> /\ edit' = <<>> /\ current' = BuilderSaveTo(current, edit[1])
    BY <1>2 DEF FlushInstalled, CompactionInstalled, Flushing, Installing
  <2>2. manifest'.base = AppliedAll(manifest.base, manifest.tail) /\ manifest'.tail = <<>>
    BY <2>1, Synced
  <2>3. VersionBounds(manifest'.base.files, tables') BY <1>b, <1>t, <2>2, TailFollows, AppliedBounds
  <2>4. VersionBounds(current', tables') BY <1>c, <1>e, <2>1, SavedBounds
  <2> QED BY <1>p, <2>1, <2>2, <2>3, <2>4, EmptyIsSeq DEF BoundsOK
<1>3. CASE Crash
  <2>1. PICK t \in 0 .. Len(manifest.tail) :
          manifest' = [base |-> AppliedAll(manifest.base, SubSeq(manifest.tail, 1, t)), tail |-> <<>>]
    BY <1>3 DEF Crash
  <2> DEFINE es == SubSeq(manifest.tail, 1, t)
  <2>2. t \in Nat /\ DOMAIN es = 1 .. t /\ \A i \in 1 .. t : es[i] = manifest.tail[i] BY PrefixFollows
  <2>3. manifest'.base = AppliedAll(manifest.base, es) /\ manifest'.tail = <<>> BY <2>1
  <2> HIDE DEF es
  <2>4. \A i \in 1 .. t : i \in 1 .. Len(manifest.tail) BY <2>2, TailFollows
  <2>5. VersionBounds(manifest'.base.files, tables') BY <1>b, <1>t, <2>2, <2>3, <2>4, AppliedBounds
  <2>6. edit' = <<>> /\ current' = NoFiles BY <1>3 DEF Crash
  <2>7. VersionBounds(current', tables') BY <2>6 DEF VersionBounds, NoFiles
  <2> QED BY <1>p, <2>3, <2>5, <2>6, <2>7, EmptyIsSeq DEF BoundsOK
<1>4. CASE OpenInstalled
  <2>1. /\ edit' = <<>> /\ current' = BuilderSaveTo(current, edit[1])
        /\ manifest'.base = Applied(manifest.base, edit[1]) /\ manifest'.tail = <<>>
    BY <1>4 DEF OpenInstalled
  <2>2. edit # <<>> BY <1>4 DEF OpenInstalled, NotOpenIsQuiet
  <2>3. VersionBounds(current', tables') BY <1>c, <1>e, <2>1, <2>2, SavedBounds
  <2>4. VersionBounds(manifest'.base.files, tables')
    BY <1>b, <1>e, <2>1, <2>2, AppliedFiles, SavedBounds
  <2> QED BY <1>p, <2>1, <2>3, <2>4, EmptyIsSeq DEF BoundsOK
<1>5. CASE Still BY <1>c, <1>b, <1>t, <1>e, <1>p, <1>5 DEF Still, BoundsOK
<1> QED BY <1>1, <1>2, <1>3, <1>4, <1>5, RecordSteps

(***************************************************************************)
(* The levels stay sorted.                                                  *)
(***************************************************************************)

(* Compaction c at work: its entries and outputs are in order, its inputs    *)
(* span them, and they fit into the current version and into the one a flush *)
(* inside its loop is about to install.                                      *)
Fits(c) ==
  /\ Spanned(c) /\ OutputsOrdered(c) /\ Room(c, current)
  /\ edit # <<>> => Room(c, BuilderSaveTo(current, edit[1]))

(* Unless a record reported as failed was read back: the recorded version is *)
(* the current one and is sorted, so is the version about to be installed,   *)
(* and a compaction at work fits.                                            *)
LevelsOK == ~revived =>
  /\ SortedLevels(manifest.base.files)
  /\ up = "open" => manifest.base.files = current
  /\ edit # <<>> => SortedLevels(BuilderSaveTo(manifest.base.files, edit[1]))
  /\ comp # <<>> /\ comp[1].phase = "work" => Fits(comp[1])

(* A sequence of one element.                                                *)
LEMMA OneLong ==
  ASSUME NEW s, IsSeq(s), Len(s) = 1 PROVE s = <<s[1]>>
BY DEF IsSeq

(* The files of the current version are finitely many and bounded.           *)
LEMMA CurrentBounded ==
  ASSUME FilesThere, BoundsOK
  PROVE  \A m \in Level : /\ IsFiniteSet(current[m])
                          /\ \A g \in current[m] : FileOK(g, tables) /\ Bounded(g)
BY DEF FilesThere, VersionOK, BoundsOK, VersionBounds, FileOK

(* What a compaction holds are entries.                                      *)
LEMMA HoldsEntries ==
  ASSUME BoundsOK, RecordsOK, comp # <<>> PROVE Bounds(comp[1]) \subseteq Entry
<1> DEFINE c == comp[1]
<1>1. UNION c.todo \subseteq Entry BY DEF RecordsOK, Contents
<1>2. \A f \in c.outs : f.smallest \in Entry /\ f.largest \in Entry
  BY DEF BoundsOK, CompBounds, FileOK, Bounded
<1> HIDE DEF c
<1> QED BY <1>1, <1>2 DEF Bounds, c

(* The only record that is not synced is the one being installed, so the     *)
(* sync adds that one.                                                       *)
LEMMA SyncedVersion ==
  ASSUME ShapesOK, NumbersOK, up = "open", edit # <<>>, SyncManifest, ~revived'
  PROVE  ~revived /\ manifest'.base.files = BuilderSaveTo(manifest.base.files, edit[1])
<1> DEFINE T == manifest.tail
           n == Len(T)
<1>1. ~revived /\ ~(n > 1) BY DEF SyncManifest
<1>2. IsSeq(T) BY DEF ShapesOK
<1>3. n \in Nat BY <1>2, AppendIsSeq
<1>4. T # <<>> /\ T[n] = edit[1] BY DEF NumbersOK
<1>5. n = 1
  <2>1. n # 0 BY <1>2, <1>4 DEF IsSeq
  <2> HIDE DEF n
  <2> QED BY <1>1, <1>3, <2>1
<1>6. T = <<edit[1]>> BY <1>2, <1>4, <1>5, OneLong
<1>7. manifest'.base = AppliedAll(manifest.base, T) BY Synced
<1>8. manifest'.base = Applied(manifest.base, edit[1]) BY <1>6, <1>7, AppliedAllOne
<1> QED BY <1>1, <1>8, AppliedFiles

(* A flush keeps the levels sorted and the room of the compaction.           *)
LEMMA FlushFits ==
  ASSUME ShapesOK, FilesThere, CallsOK, DataOK, NumbersOK, BoundsOK, RecordsOK, LevelsOK, WriteLevel0Table
  PROVE  LevelsOK'
<1>1. PICK e : /\ LogRecord(e) /\ RecordGood(e) /\ e.del = {}
               /\ \/ e.add = {}
                  \/ \E f, l : /\ Bounded(f) /\ l \in PickLevelForMemTableOutput(current, GetRange({f}))
                               /\ e.add = {<<l, f>>}
  BY FlushRecord
<1>2. edit' = <<e>> /\ manifest'.base = manifest.base BY <1>1, Logged
<1>3. up = "open" /\ up' = "open" /\ UNCHANGED <<current, comp, revived>>
  BY DEF WriteLevel0Table, MayFlush, ghosts
<1> SUFFICES ASSUME ~revived
             PROVE  /\ SortedLevels(BuilderSaveTo(manifest.base.files, e))
                    /\ comp # <<>> /\ comp[1].phase = "work" => Room(comp[1], BuilderSaveTo(current, e))
  <2>1. edit'[1] = e /\ edit' # <<>> BY <1>2
  <2> QED BY <1>2, <1>3, <2>1 DEF LevelsOK, Fits
<1> DEFINE c == comp[1]
           w == BuilderSaveTo(current, e)
<1>4. /\ manifest.base.files = current /\ SortedLevels(current)
      /\ comp # <<>> /\ c.phase = "work" => Spanned(c) /\ Room(c, current) /\ Bounds(c) \subseteq Entry
  BY <1>3, HoldsEntries DEF LevelsOK, Fits
<1> SUFFICES SortedLevels(w) /\ (comp # <<>> /\ c.phase = "work" => Room(c, w)) BY <1>4
<1>5. CASE e.add = {}
  <2>1. \A l \in Level : w[l] = current[l] BY <1>1, <1>5, SameLevels
  <2> HIDE DEF w
  <2> QED BY <1>4, <2>1, SameRoom
<1>6. CASE e.add # {}
  <2>1. PICK f, l : /\ Bounded(f) /\ l \in PickLevelForMemTableOutput(current, GetRange({f}))
                    /\ e.add = {<<l, f>>}
    BY <1>1, <1>6
  <2>2. \A m \in Level : \A g \in current[m] : Bounded(g) BY CurrentBounded
  <2>3. SortedLevels(w) BY <1>1, <1>4, <2>1, <2>2, FlushSorted
  <2>4. ASSUME comp # <<>>, c.phase = "work" PROVE Room(c, w)
    <3>1. Spanned(c) /\ Room(c, current) /\ Bounds(c) \subseteq Entry BY <1>4, <2>4
    <3> HIDE DEF c
    <3> QED BY <1>1, <2>1, <2>2, <3>1, RoomAfterFlush
  <2> QED BY <2>3, <2>4
<1> QED BY <1>5, <1>6

(* A compaction starts where it fits.                                        *)
LEMMA StartFits ==
  ASSUME FilesThere, DataOK, BoundsOK, LevelsOK, StartCompaction
  PROVE  LevelsOK'
<1>1. PICK p \in PickCompaction(current) : comp' # <<>> /\ Started(comp'[1], p) BY CompactionStarted
<1>2. /\ up = "open" /\ edit = <<>> /\ UNCHANGED <<manifest, current, up, edit, revived>>
  BY DEF StartCompaction, MayCompact, disk, memory
<1> DEFINE c == comp'[1]
<1> SUFFICES ASSUME ~revived PROVE Spanned(c) /\ OutputsOrdered(c) /\ Room(c, current)
  BY <1>2 DEF LevelsOK, Fits
<1>3. /\ c.pick = p /\ c.outs = {}
      /\ \A S \in c.todo : Contents(S) /\ S \subseteq Merged(p.in0 \cup p.in1, tables)
  BY <1>1 DEF Started
<1> HIDE DEF c
<1>4. Bounds(c) \subseteq Entry /\ Bounds(c) \subseteq Merged(c.pick.in0 \cup c.pick.in1, tables)
  BY <1>3 DEF Bounds, Contents
<1>5. OutputsOrdered(c) BY <1>3 DEF OutputsOrdered
<1>6. SortedLevels(current) BY <1>2 DEF LevelsOK
<1>7. InputsSound(current, c.pick) BY <1>3, PickNow
<1>8. \A m \in Level : IsFiniteSet(current[m]) /\ \A g \in current[m] : FileOK(g, tables)
  BY CurrentBounded
<1> QED BY <1>4, <1>5, <1>6, <1>7, <1>8, RoomAtStart

(* A move keeps the levels sorted.                                           *)
LEMMA MoveFits ==
  ASSUME ShapesOK, FilesThere, BoundsOK, LevelsOK, MoveFile
  PROVE  LevelsOK'
<1> DEFINE rec(c) == VersionEdit(logNumber, nextFile, AddInputDeletions(c),
                                 {<<c.level + 1, f>> : f \in c.in0})
<1>1. PICK c \in PickCompaction(current) :
         /\ TRUE \in IsTrivialMove(current, c) /\ LogRecord(rec(c))
         /\ comp' = <<[phase |-> "move", pick |-> c, version |-> current, todo |-> {}, outs |-> {}]>>
  BY DEF MoveFile
<1> DEFINE e == rec(c)
<1>2. edit' = <<e>> /\ manifest'.base = manifest.base
  <2>1. LogRecord(e) BY <1>1
  <2> HIDE DEF e
  <2> QED BY <2>1, Logged
<1>3. up = "open" /\ UNCHANGED <<up, current, revived>> BY DEF MoveFile, MayCompact, memory
<1>4. comp'[1].phase # "work" BY <1>1
<1>5. e.add = {<<c.level + 1, f>> : f \in c.in0} BY DEF VersionEdit
<1> HIDE DEF e
<1> SUFFICES ASSUME ~revived PROVE SortedLevels(BuilderSaveTo(manifest.base.files, e))
  <2>1. edit'[1] = e BY <1>2
  <2> QED BY <1>2, <1>3, <1>4, <2>1 DEF LevelsOK
<1>6. manifest.base.files = current /\ SortedLevels(current) BY <1>3 DEF LevelsOK
<1>7. InputsSound(current, c) BY PickNow
<1>8. \A m \in Level : IsFiniteSet(current[m]) /\ \A g \in current[m] : Bounded(g) BY CurrentBounded
<1> QED BY <1>1, <1>5, <1>6, <1>7, <1>8, MoveSorted

(* An output is made of what the compaction held.                            *)
LEMMA OutputFits ==
  ASSUME ShapesOK, RecordsOK, LevelsOK, FinishCompactionOutputFile
  PROVE  LevelsOK'
<1> DEFINE c == comp[1]
<1>1. comp # <<>> /\ IsCompaction(c) /\ edit = <<>> /\ c.phase = "work"
  <2>1. Working BY DEF FinishCompactionOutputFile
  <2>2. comp # <<>> /\ IsCompaction(c) BY <2>1, WorkingShape
  <2>3. comp = <<c>> BY <2>2, OneOrNone DEF ShapesOK
  <2>4. \A d \in Range(comp) : d = c BY <2>3 DEF Range
  <2> QED BY <2>1, <2>2, <2>4 DEF Working
<1>2. PICK S \in c.todo : /\ \A T \in c.todo \ {S} : \A a \in S, b \in T : Before(a, b)
                          /\ comp' = <<WithOutput(c, S, FileMetaData(nextFile, S))>>
  BY DEF FinishCompactionOutputFile, WithOutput
<1>3. UNCHANGED <<manifest, current, up, edit, revived>> BY DEF FinishCompactionOutputFile, ghosts
<1> DEFINE d == comp'[1]
<1>4. d = WithOutput(c, S, FileMetaData(nextFile, S)) BY <1>2
<1>5. /\ d.pick = c.pick /\ d.todo = c.todo \ {S} /\ d.outs = c.outs \cup {FileMetaData(nextFile, S)}
  BY <1>1, <1>4, OutputTaken, OutputAdded
<1>6. Contents(S) /\ S # {} BY <1>1 DEF RecordsOK
<1> SUFFICES ASSUME ~revived PROVE Spanned(d) /\ OutputsOrdered(d) /\ Room(d, current)
  BY <1>1, <1>3 DEF LevelsOK, Fits
<1>7. Spanned(c) /\ OutputsOrdered(c) /\ Room(c, current) BY <1>1 DEF LevelsOK, Fits
<1> HIDE DEF c, d
<1>8. OutputsOrdered(d) /\ Bounds(d) \subseteq Bounds(c) BY <1>2, <1>5, <1>6, <1>7, OutputOrdered
<1> QED BY <1>5, <1>7, <1>8, LessIsRoom

(* The results of a compaction fit.                                          *)
LEMMA ResultsFit ==
  ASSUME ShapesOK, NotOpenIsQuiet, LevelsOK, InstallCompactionResults
  PROVE  LevelsOK'
<1> DEFINE c == comp[1]
           e == VersionEdit(logNumber, nextFile, AddInputDeletions(c.pick),
                            {<<c.pick.level + 1, f>> : f \in c.outs})
<1>0. up = "open" BY BackgroundIsOpen DEF BackgroundStep
<1>1. comp # <<>> /\ IsCompaction(c) /\ c.phase = "work"
  <2>1. Working BY DEF InstallCompactionResults
  <2>2. comp # <<>> /\ IsCompaction(c) BY <2>1, WorkingShape
  <2>3. comp = <<c>> BY <2>2, OneOrNone DEF ShapesOK
  <2>4. \A d \in Range(comp) : d = c BY <2>3 DEF Range
  <2> QED BY <2>1, <2>2, <2>4 DEF Working
<1>2. edit' = <<e>> /\ manifest'.base = manifest.base
  <2>1. LogRecord(e)
    <3>1. LET p == comp[1].pick
          IN  LogRecord(VersionEdit(logNumber, nextFile, AddInputDeletions(p),
                                    {<<p.level + 1, f>> : f \in comp[1].outs}))
      BY Zenon DEF InstallCompactionResults
    <3> QED BY <3>1, Zenon
  <2> HIDE DEF e
  <2> QED BY <2>1, Logged
<1>3. UNCHANGED <<up, current, revived>> BY DEF InstallCompactionResults, memory, ghosts
<1>4. comp'[1].phase # "work"
  <2> DEFINE d == [c EXCEPT !.phase = "log"]
  <2>1. comp' = <<d>> BY DEF InstallCompactionResults
  <2>2. d.phase = "log" BY <1>1, PhaseOnly
  <2> HIDE DEF d
  <2> QED BY <2>1, <2>2
<1>5. e.del = AddInputDeletions(c.pick) /\ e.add = {<<c.pick.level + 1, f>> : f \in c.outs}
  BY DEF VersionEdit
<1> HIDE DEF e
<1> SUFFICES ASSUME ~revived PROVE SortedLevels(BuilderSaveTo(manifest.base.files, e))
  <2>1. edit'[1] = e BY <1>2
  <2> QED BY <1>2, <1>3, <1>4, <2>1 DEF LevelsOK
<1>6. /\ manifest.base.files = current /\ SortedLevels(current) /\ OutputsOrdered(c) /\ Room(c, current)
  BY <1>0, <1>1 DEF LevelsOK, Fits
<1> HIDE DEF c
<1> QED BY <1>5, <1>6, CompactionSorted

(* What a crash leaves of the records is sorted: the one that was being      *)
(* installed, or none.                                                       *)
LEMMA CrashFits ==
  ASSUME ShapesOK, NotOpenIsQuiet, NumbersOK, RecordsOK, LevelsOK, Crash
  PROVE  LevelsOK'
<1> DEFINE T == manifest.tail
           n == Len(T)
           state(t) == AppliedAll(manifest.base, SubSeq(T, 1, t))
<1>1. PICK t \in 0 .. n : /\ manifest' = [base |-> state(t), tail |-> <<>>]
                          /\ revived' = (revived \/ (t > 0 /\ n > Len(edit)))
  BY DEF Crash
<1>2. up' = "down" /\ edit' = <<>> /\ comp' = <<>> /\ up \in {"opening", "open"} BY DEF Crash
<1>3. manifest'.base = state(t) BY <1>1
<1> SUFFICES ASSUME ~revived' PROVE SortedLevels(manifest'.base.files)
  BY <1>2 DEF LevelsOK
<1>4. ~revived /\ ~(t > 0 /\ n > Len(edit)) BY <1>1
<1>5. SortedLevels(manifest.base.files) BY <1>4 DEF LevelsOK
<1>6. IsSeq(T) /\ n \in Nat BY AppendIsSeq DEF ShapesOK
<1>7. CASE t = 0
  <2> DEFINE es == SubSeq(T, 1, t)
  <2>1. t \in Nat /\ DOMAIN es = 1 .. t BY PrefixFollows
  <2> HIDE DEF es
  <2>2. AppliedAll(manifest.base, es) = manifest.base BY <1>7, <2>1, AppliedAllCounters
  <2> QED BY <1>3, <1>5, <2>2 DEF es
<1>8. CASE t # 0
  <2>1. t > 0 /\ n >= t /\ t \in Nat
    <3> HIDE DEF n
    <3> QED BY <1>6, <1>8
  <2>2. T # <<>>
    <3>1. T = <<>> => n = 0 BY EmptyIsSeq
    <3> HIDE DEF T, n
    <3> QED BY <2>1, <3>1
  <2>3. up = "open" BY <1>2, <2>2 DEF NotOpenIsQuiet
  <2>4. edit # <<>>
    <3>1. edit = <<>> => Len(edit) = 0 BY EmptyIsSeq
    <3> HIDE DEF n
    <3> QED BY <1>4, <1>6, <2>1, <3>1
  <2> DEFINE e == edit[1]
  <2>5. edit = <<e>> BY <2>4, OneOrNone DEF ShapesOK
  <2> HIDE DEF e
  <2>6. Len(edit) = 1 BY <2>5
  <2>7. n = 1 /\ t = 1
    <3> HIDE DEF n
    <3> QED BY <1>4, <1>6, <2>1, <2>6
  <2>8. T[n] = e BY <2>3, <2>4 DEF NumbersOK, e
  <2>9. T = <<e>> BY <1>6, <2>7, <2>8, OneLong
  <2>10. SubSeq(T, 1, t) = <<e>>
    <3>1. T \in Seq(Range(T)) BY <1>6 DEF IsSeq
    <3>2. SubSeq(T, 1, Len(T)) = T BY <3>1, SubSeqFull
    <3> QED BY <2>7, <2>9, <3>2
  <2> HIDE DEF T
  <2>11. manifest'.base = Applied(manifest.base, e) BY <1>3, <2>10, AppliedAllOne
  <2>12. SortedLevels(BuilderSaveTo(manifest.base.files, e)) BY <1>4, <2>4 DEF LevelsOK, e
  <2> QED BY <2>11, <2>12, AppliedFiles
<1> QED BY <1>7, <1>8

(* Recovered tables are files of level 0.                                    *)
LEMMA OpenFits ==
  ASSUME ShapesOK, NotOpenIsQuiet, DataOK, NumbersOK, LevelsOK, Open
  PROVE  LevelsOK'
<1> DEFINE r == Recovered
           v == manifest.base.files
<1>1. RecoverySound(r) BY RecoverySoundNow
<1>2. /\ up = "down" /\ up' = "opening" /\ UNCHANGED <<manifest, revived, comp>>
      /\ edit' = <<OpenRecord(r)>>
  BY DEF Open, OpenRecord, ghosts
<1> HIDE DEF r
<1>3. comp = <<>> BY <1>2 DEF NotOpenIsQuiet
<1> DEFINE e == OpenRecord(r)
           w == BuilderSaveTo(v, e)
<1>4. edit'[1] = e /\ e.del = {} /\ e.add = r.add BY <1>2 DEF OpenRecord
<1> HIDE DEF e
<1> SUFFICES ASSUME ~revived PROVE SortedLevels(w)
  BY <1>2, <1>3, <1>4 DEF LevelsOK
<1>5. ASSUME NEW l \in Level \ {0}, NEW g \in w[l] PROVE g \in v[l]
  <2>1. Saved(v, e, l, g) BY <1>5, SavedLevel
  <2>2. \A a \in e.add : a[1] = 0 BY <1>1, <1>4 DEF RecoverySound, AddedOK
  <2> QED BY <2>1, <2>2 DEF Saved
<1>6. SortedLevels(v) BY DEF LevelsOK
<1> HIDE DEF v, w
<1> QED BY <1>5, <1>6 DEF SortedLevels

(* Every step keeps LevelsOK.                                                *)
LEMMA LevelsKept ==
  ASSUME ShapesOK, NotOpenIsQuiet, FilesThere, CallsOK, DataOK, NumbersOK, BoundsOK, RecordsOK,
         LevelsOK, Next
  PROVE  LevelsOK'
<1>0. UNCHANGED <<manifest, up, current, revived>> /\ edit' \in {edit, <<>>} /\ comp' \in {comp, <<>>}
        => LevelsOK'
  BY DEF LevelsOK, Fits
<1>1. ASSUME NEW w \in Writers, WriterStep(w) PROVE LevelsOK'
  <2>1. UNCHANGED revived
    BY <1>1 DEF WriterStep, Write, MakeRoomFails, MakeRoomWaits, SwitchMemTable, AddRecord,
                AddRecordFails, SyncFails, SyncAndInsert, ghosts
  <2> QED BY <1>0, <1>1, <2>1, WriterChanges
<1>2. CASE ReaderStep BY <1>0, <1>2, ReaderKeepsCalls DEF disk, memory, ghosts
<1>3. CASE WriteLevel0Table BY <1>3, FlushFits
<1>4. CASE FlushFails BY <1>0, <1>4 DEF FlushFails, disk, ghosts
<1>5. CASE BackgroundCallStops BY <1>0, <1>5 DEF BackgroundCallStops, disk, memory, ghosts
<1>6. CASE StartCompaction BY <1>6, StartFits
<1>7. CASE MoveFile BY <1>7, MoveFits
<1>8. CASE FinishCompactionOutputFile BY <1>8, OutputFits
<1>9. CASE InstallCompactionResults BY <1>9, ResultsFit
<1>10. CASE CompactionFails BY <1>0, <1>10 DEF CompactionFails, disk, memory, ghosts
<1>11. CASE FlushInstalled
  <2>1. up = "open" /\ up' = "open" BY <1>11, BackgroundIsOpen DEF BackgroundStep
  <2>2. /\ SyncManifest /\ edit # <<>> /\ edit' = <<>> /\ current' = BuilderSaveTo(current, edit[1])
        /\ comp' = comp
    BY <1>11 DEF FlushInstalled, Flushing
  <2> SUFFICES ASSUME ~revived'
               PROVE  /\ SortedLevels(manifest'.base.files) /\ manifest'.base.files = current'
                      /\ comp # <<>> /\ comp[1].phase = "work" =>
                           Spanned(comp[1]) /\ OutputsOrdered(comp[1]) /\ Room(comp[1], current')
    BY <2>1, <2>2 DEF LevelsOK, Fits
  <2>3. ~revived /\ manifest'.base.files = BuilderSaveTo(manifest.base.files, edit[1])
    BY <2>1, <2>2, SyncedVersion
  <2> QED BY <2>1, <2>2, <2>3 DEF LevelsOK, Fits
<1>12. CASE CompactionInstalled
  <2>1. up = "open" /\ up' = "open" BY <1>12, BackgroundIsOpen DEF BackgroundStep
  <2>2. /\ SyncManifest /\ edit # <<>> /\ edit' = <<>> /\ current' = BuilderSaveTo(current, edit[1])
        /\ comp' = <<>>
    BY <1>12 DEF CompactionInstalled, Installing
  <2> SUFFICES ASSUME ~revived'
               PROVE  SortedLevels(manifest'.base.files) /\ manifest'.base.files = current'
    BY <2>1, <2>2 DEF LevelsOK
  <2>3. ~revived /\ manifest'.base.files = BuilderSaveTo(manifest.base.files, edit[1])
    BY <2>1, <2>2, SyncedVersion
  <2> QED BY <2>1, <2>2, <2>3 DEF LevelsOK
<1>13. CASE Crash BY <1>13, CrashFits
<1>14. CASE Open BY <1>14, OpenFits
<1>15. CASE OpenInstalled
  <2>1. /\ up = "opening" /\ up' = "open" /\ edit' = <<>> /\ current' = BuilderSaveTo(current, edit[1])
        /\ manifest'.base = Applied(manifest.base, edit[1]) /\ UNCHANGED <<comp, revived>>
    BY <1>15 DEF OpenInstalled, ghosts
  <2>2. edit # <<>> /\ comp = <<>> /\ current = manifest.base.files BY <2>1 DEF NotOpenIsQuiet
  <2>3. manifest'.base.files = BuilderSaveTo(manifest.base.files, edit[1]) BY <2>1, AppliedFiles
  <2> QED BY <2>1, <2>2, <2>3 DEF LevelsOK
<1> QED BY <1>1, <1>2, <1>3, <1>4, <1>5, <1>6, <1>7, <1>8, <1>9, <1>10, <1>11, <1>12, <1>13, <1>14, <1>15
        DEF Next, BackgroundStep

(***************************************************************************)
(* The theorems on data and levels.                                         *)
(***************************************************************************)

(* The data, the calls, the records, the numbers, the bounds and the levels. *)
DInv == CallsOK /\ DataOK /\ RecordsOK /\ NumbersOK /\ BoundsOK /\ LevelsOK

(* A new database satisfies it.                                              *)
LEMMA DataInitial == Init => DInv
<1> SUFFICES ASSUME Init PROVE DInv OBVIOUS
<1> DEFINE base == [files |-> NoFiles, log |-> 0, next |-> 2, seq |-> 0]
<1>1. manifest.base = base /\ manifest.tail = <<>> /\ DOMAIN logs = {} /\ DOMAIN tables = {}
  BY DEF Init, NewDB
<1>2. /\ up = "down" /\ mem = {} /\ imm = <<>> /\ logfileNumber = 0 /\ logNumber = 0 /\ nextFile = 0
      /\ lastSequence = 0 /\ current = NoFiles /\ edit = <<>> /\ comp = <<>> /\ queue = <<>>
      /\ job = [w \in Writers |-> NoJob] /\ hist = {} /\ promised = {} /\ budget \in Budgets
  BY DEF Init, Closed
<1>3. MaxSeq \in Nat BY LevelDBAssumption
<1>4. CallsOK
  <2>1. \A b \in Budgets : b \in Budget BY LevelDBAssumption, Zenon
  <2>2. budget \in Budget BY <1>2, <2>1
  <2>3. job \in [Writers -> Jobs \cup {NoJob}] BY <1>2
  <2>4. Queued(queue, job) = 0 BY <1>2, NothingQueued
  <2> QED BY <1>2, <1>3, <2>2, <2>3, <2>4 DEF CallsOK
<1>5. DataOK BY <1>1, <1>2, FS_EmptySet DEF DataOK, LogsTyped, TablesOK, Contents
<1>6. RecordsOK BY <1>1, <1>2, EmptyIsSeq DEF RecordsOK
<1>7. StateShape(manifest.base)
  <2>1. \A l \in Level : base.files[l] = {} BY DEF NoFiles
  <2>2. base.log = 0 /\ base.next = 2 /\ base.seq = 0 OBVIOUS
  <2> HIDE DEF base
  <2> QED BY <1>1, <1>3, <2>1, <2>2 DEF StateShape
<1>8. NumbersOK BY <1>1, <1>2, <1>7, NoTailOrdered DEF NumbersOK
<1>9. \A l \in Level : NoFiles[l] = {} BY DEF NoFiles
<1>10. BoundsOK BY <1>1, <1>2, <1>9, EmptyIsSeq DEF BoundsOK, VersionBounds
<1>11. LevelsOK BY <1>1, <1>2, <1>9 DEF LevelsOK, SortedLevels
<1> QED BY <1>4, <1>5, <1>6, <1>8, <1>10, <1>11 DEF DInv

(* Every step keeps it.                                                      *)
LEMMA DataInvKept == IInv /\ DInv /\ [Next]_vars => DInv'
<1> SUFFICES ASSUME IInv, DInv, [Next]_vars PROVE DInv' OBVIOUS
<1>0. QueueOK /\ ShapesOK /\ NotOpenIsQuiet /\ FilesThere BY DEF IInv
<1>1. CallsOK /\ DataOK /\ RecordsOK /\ NumbersOK /\ BoundsOK /\ LevelsOK BY DEF DInv
<1>2. CASE Next
  <2>1. Recovered.seq \in 0 .. MaxSeq BY <1>0, <1>1, RecoverySoundNow DEF RecoverySound
  <2>2. CallsOK' BY <1>0, <1>1, <1>2, <2>1, CallsKept
  <2>3. DataOK' BY <1>0, <1>1, <1>2, DataKept
  <2>4. RecordsOK' BY <1>0, <1>1, <1>2, RecordsKept
  <2>5. NumbersOK' BY <1>0, <1>1, <1>2, NumbersKept
  <2>6. BoundsOK' BY <1>0, <1>1, <1>2, BoundsKept
  <2>7. LevelsOK' BY <1>0, <1>1, <1>2, LevelsKept
  <2> QED BY <2>2, <2>3, <2>4, <2>5, <2>6, <2>7 DEF DInv
<1>3. CASE UNCHANGED vars
  <2>1. UNCHANGED <<logs, tables, manifest, up, mem, imm, logfileNumber, logNumber, nextFile,
                    lastSequence, current, edit, comp, queue, job, hist, promised, revived, budget>>
    BY <1>3 DEF vars
  <2>2. CallsOK' BY <1>1, <2>1 DEF CallsOK
  <2>3. DataOK' BY <1>1, <2>1, UntouchedData
  <2>4. RecordsOK' BY <1>1, <2>1 DEF RecordsOK
  <2>5. NumbersOK' BY <1>1, <2>1 DEF NumbersOK
  <2>6. BoundsOK' BY <1>1, <2>1 DEF BoundsOK
  <2>7. LevelsOK' BY <1>1, <2>1 DEF LevelsOK, Fits
  <2> QED BY <2>2, <2>3, <2>4, <2>5, <2>6, <2>7 DEF DInv
<1> QED BY <1>2, <1>3

(* The records, the numbers, the bounds of the files and the order of the    *)
(* levels hold of every behaviour of the database.                           *)
THEOREM LevelDBDataInvariance == Spec => []DInv
<1>1. Init => DInv BY DataInitial
<1>2. IInv /\ DInv /\ [Next]_vars => DInv' BY DataInvKept
<1>3. Spec => []IInv BY LevelDBInvariance
<1> QED BY <1>1, <1>2, <1>3, PTL DEF Spec

(* From LevelsOK: the current version is the recorded one, or empty.         *)
LEMMA SortedFollows == IInv /\ DInv => LevelsSorted
<1> SUFFICES ASSUME IInv, DInv, ~revived PROVE SortedLevels(current) BY DEF LevelsSorted
<1>1. SortedLevels(manifest.base.files) /\ (up = "open" => manifest.base.files = current)
  BY DEF DInv, LevelsOK
<1>2. CASE up = "open" BY <1>1, <1>2
<1>3. CASE up = "opening" BY <1>1, <1>3 DEF IInv, NotOpenIsQuiet
<1>4. CASE up = "down"
  <2>1. current = NoFiles BY <1>4 DEF DInv, NumbersOK
  <2> QED BY <2>1 DEF SortedLevels, NoFiles
<1> QED BY <1>2, <1>3, <1>4 DEF IInv, ShapesOK

(* PickLevelForMemTableOutput, PickCompaction, the outputs of a compaction   *)
(* with flushes inside its loop, and recovery never leave two files of a     *)
(* level below 0 that overlap.                                               *)
THEOREM LevelsAlwaysSorted == Spec => []LevelsSorted
BY LevelDBInvariance, LevelDBDataInvariance, SortedFollows, PTL

(***************************************************************************)
(* The types.                                                               *)
(***************************************************************************)

(* No snapshot is of the future, and none outlives the database,             *)
SnapshotsOK ==
  /\ snapshots \in Seq(0 .. lastSequence)
  /\ up # "open" => snapshots = <<>>

(* ... the versions that are read have the bounds of their tables,           *)
PinnedOK == \A v \in pinned : VersionBounds(v, tables)

(* ... every log that a record or the installed state names is there,        *)
LogsThere ==
  /\ edit # <<>> => edit[1].log \in DOMAIN logs
  /\ \A i \in 1 .. Len(manifest.tail) : manifest.tail[i].log \in DOMAIN logs
  /\ up = "open" => logNumber \in DOMAIN logs

(* ... and a compaction is in one of its phases.                             *)
PhasesOK ==
  /\ comp # <<>> => comp[1].phase \in {"work", "log", "move"}
  /\ split \in BOOLEAN /\ revived \in BOOLEAN

(* What the types need besides IInv and DInv.                                *)
TInv == SnapshotsOK /\ PinnedOK /\ LogsThere /\ PhasesOK

(* A sequence stays one when its range grows, when an element is added and   *)
(* when one is taken out.                                                    *)
LEMMA SnapshotSeq ==
  ASSUME NEW m \in Nat, NEW s \in Seq(0 .. m), NEW n \in Nat, m <= n
  PROVE  /\ s \in Seq(0 .. n) /\ Append(s, n) \in Seq(0 .. n)
         /\ \A i \in DOMAIN s : RemoveAt(s, i) \in Seq(0 .. n)
<1>1. Len(s) \in Nat /\ DOMAIN s = 1 .. Len(s) /\ \A i \in DOMAIN s : s[i] \in 0 .. m BY ElementsOf
<1>2. s \in Seq(0 .. n) BY <1>1, SeqRetyped
<1>3. Append(s, n) \in Seq(0 .. n) BY <1>2
<1>4. ASSUME NEW i \in DOMAIN s PROVE RemoveAt(s, i) \in Seq(0 .. n)
  <2> DEFINE a == SubSeq(s, 1, i - 1)
             b == SubSeq(s, i + 1, Len(s))
  <2>1. i \in 1 .. Len(s) BY <1>1
  <2>2. a \in Seq(0 .. n) BY <1>1, <1>2, <2>1
  <2>3. b \in Seq(0 .. n) BY <1>1, <1>2, <2>1
  <2>4. RemoveAt(s, i) = a \o b BY DEF RemoveAt
  <2> HIDE DEF a, b
  <2> QED BY <2>2, <2>3, <2>4
<1> QED BY <1>2, <1>3, <1>4

(* A writer uses up sequence numbers and leaves the rest.                    *)
LEMMA WriterSequence ==
  ASSUME QueueOK, CallsOK, NEW w \in Writers, WriterStep(w)
  PROVE  /\ UNCHANGED <<snapshots, split, revived>>
         /\ lastSequence' \in Nat /\ lastSequence <= lastSequence'
<1>0. lastSequence \in Nat BY LevelDBAssumption DEF CallsOK
<1>b. ASSUME NEW n \in 0 .. Len(queue)
      PROVE  LastSequenceAfter(n) \in Nat /\ lastSequence <= LastSequenceAfter(n)
  BY <1>0, BatchTyped DEF LastSequenceAfter
<1>g. group \in 0 .. Len(queue) BY DEF QueueOK
<1>n. BuildBatchGroup \subseteq 0 .. Len(queue) BY DEF BuildBatchGroup
<1>1. ASSUME NEW j \in budget.jobs, Write(w, j)
      PROVE  UNCHANGED <<snapshots, split, revived, lastSequence>>
  BY <1>1 DEF Write, memory, ghosts
<1>2. CASE MakeRoomFails(w) BY <1>0, <1>2 DEF MakeRoomFails, memory, ghosts
<1>3. CASE MakeRoomWaits(w) BY <1>0, <1>3 DEF MakeRoomWaits, memory, ghosts
<1>4. CASE SwitchMemTable(w) BY <1>0, <1>4 DEF SwitchMemTable, ghosts
<1>5. CASE AddRecord(w) BY <1>0, <1>5 DEF AddRecord, memory, ghosts
<1>6. CASE AddRecordFails(w)
  <2>1. PICK n \in BuildBatchGroup : lastSequence' = LastSequenceAfter(n) BY <1>6 DEF AddRecordFails
  <2>2. UNCHANGED <<snapshots, split, revived>> BY <1>6 DEF AddRecordFails, ghosts
  <2> QED BY <1>b, <1>n, <2>1, <2>2
<1>7. CASE SyncFails(w) BY <1>b, <1>g, <1>7 DEF SyncFails, ghosts
<1>8. CASE SyncAndInsert(w)
  <2>1. lastSequence' = LastSequenceAfter(group) BY <1>8 DEF SyncAndInsert
  <2>2. UNCHANGED <<snapshots, split, revived>> BY <1>8 DEF SyncAndInsert
  <2> QED BY <1>b, <1>g, <2>1, <2>2
<1> QED BY <1>0, <1>1, <1>2, <1>3, <1>4, <1>5, <1>6, <1>7, <1>8 DEF WriterStep

(* The background thread gives out none.                                     *)
LEMMA BackgroundSequence ==
  ASSUME BackgroundStep
  PROVE  UNCHANGED <<snapshots, lastSequence>>
BY DEF BackgroundStep, WriteLevel0Table, FlushInstalled, FlushFails, BackgroundCallStops,
       StartCompaction, MoveFile, FinishCompactionOutputFile, InstallCompactionResults,
       CompactionInstalled, CompactionFails, memory

(* Every step keeps SnapshotsOK.                                             *)
LEMMA SnapshotsKept ==
  ASSUME QueueOK, NotOpenIsQuiet, CallsOK, SnapshotsOK, Next
  PROVE  SnapshotsOK'
<1>0. lastSequence \in Nat BY LevelDBAssumption DEF CallsOK
<1>s. snapshots \in Seq(0 .. lastSequence) BY DEF SnapshotsOK
<1>1. ASSUME NEW w \in Writers, WriterStep(w) PROVE SnapshotsOK'
  <2>1. up' = "open" BY <1>1, WriterChanges
  <2>2. snapshots' = snapshots /\ lastSequence' \in Nat /\ lastSequence <= lastSequence'
    BY <1>1, WriterSequence
  <2>3. snapshots \in Seq(0 .. lastSequence') BY <1>0, <1>s, <2>2, SnapshotSeq
  <2> QED BY <2>1, <2>2, <2>3 DEF SnapshotsOK
<1>2. CASE ReaderStep
  <2>1. UNCHANGED <<up, lastSequence>> BY <1>2, ReaderKeepsCalls DEF memory
  <2>2. \/ snapshots' = snapshots
        \/ up = "open" /\ snapshots' = Append(snapshots, lastSequence)
        \/ \E i \in DOMAIN snapshots : snapshots' = RemoveAt(snapshots, i)
    BY <1>2 DEF ReaderStep, GetSnapshot, ReleaseSnapshot, RefVersion, UnrefVersion
  <2>3. snapshots' \in Seq(0 .. lastSequence)
    <3>1. lastSequence <= lastSequence BY <1>0
    <3>2. /\ Append(snapshots, lastSequence) \in Seq(0 .. lastSequence)
          /\ \A i \in DOMAIN snapshots : RemoveAt(snapshots, i) \in Seq(0 .. lastSequence)
      BY <1>0, <1>s, <3>1, SnapshotSeq
    <3> QED BY <1>s, <2>2, <3>2
  <2>4. up # "open" => snapshots' = <<>> BY <2>2 DEF SnapshotsOK
  <2> QED BY <2>1, <2>3, <2>4 DEF SnapshotsOK
<1>3. CASE BackgroundStep
  <2>1. up' = "open" BY <1>3, BackgroundIsOpen
  <2>2. UNCHANGED <<snapshots, lastSequence>> BY <1>3, BackgroundSequence
  <2> QED BY <1>s, <2>1, <2>2 DEF SnapshotsOK
<1>4. CASE Crash
  <2>1. snapshots' = <<>> BY <1>4 DEF Crash
  <2> QED BY <2>1 DEF SnapshotsOK
<1>5. CASE Open
  <2>1. up = "down" /\ snapshots' = snapshots BY <1>5 DEF Open
  <2>2. snapshots' = <<>> BY <2>1 DEF SnapshotsOK
  <2> QED BY <2>2 DEF SnapshotsOK
<1>6. CASE OpenInstalled
  <2>1. up' = "open" /\ UNCHANGED <<snapshots, lastSequence>> BY <1>6 DEF OpenInstalled
  <2> QED BY <1>s, <2>1 DEF SnapshotsOK
<1> QED BY <1>1, <1>2, <1>3, <1>4, <1>5, <1>6 DEF Next

(* Every step keeps PinnedOK: what a reader holds is not deleted.            *)
LEMMA PinnedKept ==
  ASSUME NotOpenIsQuiet, FilesThere, NumbersOK, DataOK, BoundsOK, PinnedOK, Next
  PROVE  PinnedOK'
<1>1. CASE Open
  <2>1. up = "down" /\ pinned' = pinned BY <1>1 DEF Open
  <2>2. pinned' = {} BY <2>1 DEF NotOpenIsQuiet
  <2> QED BY <2>2 DEF PinnedOK
<1>2. CASE ~Open
  <2>1. pinned' \subseteq pinned \cup {current}
    <3>1. ASSUME NEW w \in Writers, WriterStep(w) PROVE pinned' = pinned BY <3>1, WriterChanges
    <3>2. CASE ReaderStep BY <3>2, ReaderKeepsCalls
    <3>3. CASE BackgroundStep BY <3>3, BackgroundIsOpen
    <3>4. CASE Crash BY <3>4 DEF Crash
    <3>5. CASE OpenInstalled BY <3>5 DEF OpenInstalled
    <3> QED BY <1>2, <3>1, <3>2, <3>3, <3>4, <3>5 DEF Next
  <2>2. KeepsBounds BY <1>2, BoundsStay
  <2>3. \A v \in pinned \cup {current} : VersionOK(v, DOMAIN tables) /\ VersionBounds(v, tables)
    BY DEF FilesThere, BoundsOK, PinnedOK
  <2>4. \A v \in pinned \cup {current} : VersionBounds(v, tables') BY <2>2, <2>3, KeptBounds
  <2> QED BY <2>1, <2>4 DEF PinnedOK
<1> QED BY <1>1, <1>2

(* A record names the log being written or the one last installed.           *)
LEMMA RecordLog ==
  ASSUME NotOpenIsQuiet, WriteLevel0Table \/ MoveFile \/ InstallCompactionResults
  PROVE  /\ up = "open" /\ UNCHANGED <<up, logs, logNumber>>
         /\ \E e : LogRecord(e) /\ e.log \in {logNumber, logfileNumber}
<1>v. \A lg, nx, del, add : VersionEdit(lg, nx, del, add).log = lg BY DEF VersionEdit
<1>0. up = "open" /\ up' = up BY BackgroundIsOpen DEF BackgroundStep
<1>1. CASE WriteLevel0Table
  <2>1. \E nx, del, add : LogRecord(VersionEdit(logfileNumber, nx, del, add))
    BY <1>1 DEF WriteLevel0Table
  <2>2. UNCHANGED <<logs, logNumber>> BY <1>1 DEF WriteLevel0Table
  <2> QED BY <1>0, <1>v, <2>1, <2>2
<1>2. CASE MoveFile
  <2>1. \E nx, del, add : LogRecord(VersionEdit(logNumber, nx, del, add)) BY <1>2 DEF MoveFile
  <2>2. UNCHANGED <<logs, logNumber>> BY <1>2 DEF MoveFile, memory
  <2> QED BY <1>0, <1>v, <2>1, <2>2
<1>3. CASE InstallCompactionResults
  <2>1. \E nx, del, add : LogRecord(VersionEdit(logNumber, nx, del, add))
    BY <1>3 DEF InstallCompactionResults
  <2>2. UNCHANGED <<logs, logNumber>> BY <1>3 DEF InstallCompactionResults, memory
  <2> QED BY <1>0, <1>v, <2>1, <2>2
<1> QED BY <1>1, <1>2, <1>3

(* Only what installs a state deletes logs.                                  *)
LEMMA LogsStay ==
  ASSUME ShapesOK, NotOpenIsQuiet, Next
  PROVE  \/ DOMAIN logs \subseteq DOMAIN logs'
         \/ FlushInstalled \/ CompactionInstalled \/ OpenInstalled
<1>1. ASSUME NEW w \in Writers, WriterStep(w) PROVE DOMAIN logs \subseteq DOMAIN logs'
  BY <1>1, WriterChanges
<1>2. CASE ReaderStep BY <1>2, ReaderKeepsCalls DEF disk
<1>3. CASE BackgroundStep /\ ~FlushInstalled /\ ~CompactionInstalled
  BY <1>3 DEF BackgroundStep, WriteLevel0Table, FlushFails, BackgroundCallStops, StartCompaction,
              MoveFile, FinishCompactionOutputFile, InstallCompactionResults, CompactionFails, disk
<1>4. CASE Crash
  <2>1. DOMAIN logs' = DOMAIN logs BY <1>4 DEF Crash
  <2> QED BY <2>1
<1>5. CASE Open
  <2>1. \E n : DOMAIN logs' = DOMAIN logs \cup {n} BY <1>5 DEF Open
  <2> QED BY <2>1
<1> QED BY <1>1, <1>2, <1>3, <1>4, <1>5 DEF Next

(* Every step keeps LogsThere: no log is deleted that a record names, for    *)
(* all records before the one installed are installed with it.               *)
LEMMA LogsThereKept ==
  ASSUME ShapesOK, NotOpenIsQuiet, DataOK, NumbersOK, RecordsOK, LogsThere, Next
  PROVE  LogsThere'
<1>n. logs' = logs => DOMAIN logs \subseteq DOMAIN logs' OBVIOUS
<1>1. CASE WriteLevel0Table \/ MoveFile \/ InstallCompactionResults
  <2>1. up = "open" /\ UNCHANGED <<up, logs, logNumber>> BY <1>1, RecordLog
  <2>2. PICK e : LogRecord(e) /\ e.log \in {logNumber, logfileNumber} BY <1>1, RecordLog
  <2>3. edit' = <<e>> /\ manifest'.tail = Append(manifest.tail, e) BY <2>2, Logged
  <2>4. IsSeq(manifest.tail) BY DEF ShapesOK
  <2>5. /\ Len(manifest'.tail) = Len(manifest.tail) + 1 /\ Len(manifest.tail) \in Nat
        /\ \A i \in 1 .. Len(manifest.tail) + 1 :
             manifest'.tail[i] = IF i = Len(manifest.tail) + 1 THEN e ELSE manifest.tail[i]
    BY <2>3, <2>4, AppendIsSeq
  <2>6. e.log \in DOMAIN logs BY <2>1, <2>2 DEF LogsThere, NumbersOK
  <2>7. \A i \in 1 .. Len(manifest.tail) : manifest.tail[i].log \in DOMAIN logs BY DEF LogsThere
  <2>8. edit'[1] = e BY <2>3
  <2>9. logNumber' \in DOMAIN logs' BY <2>1 DEF LogsThere
  <2>10. \A i \in 1 .. Len(manifest'.tail) : manifest'.tail[i].log \in DOMAIN logs'
    BY <2>1, <2>5, <2>6, <2>7
  <2> QED BY <2>1, <2>6, <2>8, <2>9, <2>10 DEF LogsThere
<1>2. CASE FlushInstalled \/ CompactionInstalled \/ OpenInstalled
  <2>0. edit # <<>>
    BY <1>2 DEF FlushInstalled, Flushing, CompactionInstalled, Installing, OpenInstalled, NotOpenIsQuiet
  <2>1. edit[1].log \in DOMAIN logs BY <2>0 DEF LogsThere
  <2>2. edit[1].log \in Nat BY <2>0 DEF RecordsOK, EditShape
  <2>3. manifest'.tail = <<>>
    <3>1. SyncManifest \/ \E b : manifest' = [base |-> b, tail |-> <<>>]
      BY <1>2 DEF FlushInstalled, CompactionInstalled, OpenInstalled
    <3> QED BY <3>1, Synced
  <2>4. edit' = <<>> /\ logNumber' = edit[1].log
    BY <1>2 DEF FlushInstalled, CompactionInstalled, OpenInstalled
  <2>5. logs' = logs \/ \E vs, outs : DeleteObsoleteFiles(vs, edit[1].log, outs)
    BY <1>2 DEF FlushInstalled, CompactionInstalled, OpenInstalled
  <2>6. edit[1].log \in DOMAIN logs'
    BY <2>1, <2>2, <2>5, DeletedData DEF DataOK
  <2> QED BY <2>3, <2>4, <2>6, EmptyIsSeq DEF LogsThere
<1>3. CASE Crash
  <2>1. up' = "down" /\ edit' = <<>> BY <1>3 DEF Crash
  <2>2. manifest'.tail = <<>> BY <1>3 DEF Crash
  <2> QED BY <2>1, <2>2, EmptyIsSeq DEF LogsThere
<1>4. CASE Open
  <2> DEFINE r == Recovered
  <2>1. /\ up = "down" /\ up' = "opening" /\ manifest' = manifest
        /\ DOMAIN logs' = DOMAIN logs \cup {r.next} /\ edit' = <<OpenRecord(r)>>
    BY <1>4 DEF Open, OpenRecord
  <2> HIDE DEF r
  <2>2. OpenRecord(r).log = r.next BY DEF OpenRecord
  <2>3. manifest'.tail = <<>> BY <2>1 DEF NotOpenIsQuiet
  <2>4. edit'[1] = OpenRecord(r) BY <2>1
  <2> QED BY <2>1, <2>2, <2>3, <2>4, EmptyIsSeq DEF LogsThere
<1>5. CASE Still
  <2>1. CASE DOMAIN logs \subseteq DOMAIN logs' BY <1>5, <2>1 DEF Still, LogsThere
  <2> QED BY <1>2, <2>1, LogsStay
<1> QED BY <1>1, <1>2, <1>3, <1>4, <1>5, RecordSteps

(* Every step keeps PhasesOK.                                                *)
LEMMA PhasesKept ==
  ASSUME QueueOK, ShapesOK, NotOpenIsQuiet, FilesThere, CallsOK, DataOK, BoundsOK, PhasesOK, Next
  PROVE  PhasesOK'
<1>1. comp' # <<>> => comp'[1].phase \in {"work", "log", "move"}
  <2>1. CASE StartCompaction BY <2>1, CompactionStarted DEF Started
  <2>2. CASE MoveFile
    <3>1. \E c, v : comp' = <<[phase |-> "move", pick |-> c, version |-> v, todo |-> {}, outs |-> {}]>>
      BY <2>2 DEF MoveFile
    <3> QED BY <3>1
  <2>3. CASE FinishCompactionOutputFile
    <3>1. comp # <<>> /\ IsCompaction(comp[1]) BY <2>3, WorkingShape DEF FinishCompactionOutputFile
    <3>2. PICK S, f : comp' = <<WithOutput(comp[1], S, f)>>
      BY <2>3 DEF FinishCompactionOutputFile, WithOutput
    <3> DEFINE d == WithOutput(comp[1], S, f)
    <3>3. d.phase = comp[1].phase BY <3>1, OutputTaken
    <3> HIDE DEF d
    <3>4. comp'[1] = d BY <3>2 DEF d
    <3> QED BY <3>1, <3>3, <3>4 DEF PhasesOK
  <2>4. CASE InstallCompactionResults
    <3>1. comp # <<>> /\ IsCompaction(comp[1]) BY <2>4, WorkingShape DEF InstallCompactionResults
    <3> DEFINE d == [comp[1] EXCEPT !.phase = "log"]
    <3>2. comp' = <<d>> BY <2>4 DEF InstallCompactionResults
    <3>3. d.phase = "log" BY <3>1, PhaseOnly
    <3> HIDE DEF d
    <3> QED BY <3>2, <3>3
  <2>5. CASE comp' = comp BY <2>5 DEF PhasesOK
  <2> QED BY <2>1, <2>2, <2>3, <2>4, <2>5, CompSteps
<1>2. split' \in BOOLEAN /\ revived' \in BOOLEAN
  <2>0. split \in BOOLEAN /\ revived \in BOOLEAN BY DEF PhasesOK
  <2>1. ASSUME NEW w \in Writers, WriterStep(w) PROVE UNCHANGED <<split, revived>>
    BY <2>1, WriterSequence
  <2>2. CASE ReaderStep BY <2>0, <2>2, ReaderKeepsCalls DEF ghosts
  <2>3. CASE WriteLevel0Table BY <2>0, <2>3 DEF WriteLevel0Table, ghosts
  <2>4. CASE FlushInstalled BY <2>0, <2>4 DEF FlushInstalled, SyncManifest
  <2>5. CASE FlushFails BY <2>0, <2>5 DEF FlushFails, ghosts
  <2>6. CASE BackgroundCallStops BY <2>0, <2>6 DEF BackgroundCallStops, ghosts
  <2>7. CASE StartCompaction BY <2>0, <2>7 DEF StartCompaction
  <2>8. CASE MoveFile BY <2>0, <2>8 DEF MoveFile
  <2>9. CASE FinishCompactionOutputFile BY <2>0, <2>9 DEF FinishCompactionOutputFile, ghosts
  <2>10. CASE InstallCompactionResults BY <2>0, <2>10 DEF InstallCompactionResults, ghosts
  <2>11. CASE CompactionInstalled BY <2>0, <2>11 DEF CompactionInstalled, SyncManifest
  <2>12. CASE CompactionFails BY <2>0, <2>12 DEF CompactionFails, ghosts
  <2>13. CASE Crash BY <2>0, <2>13 DEF Crash
  <2>14. CASE Open BY <2>0, <2>14 DEF Open, ghosts
  <2>15. CASE OpenInstalled BY <2>0, <2>15 DEF OpenInstalled, ghosts
  <2> QED BY <2>0, <2>1, <2>2, <2>3, <2>4, <2>5, <2>6, <2>7, <2>8, <2>9, <2>10, <2>11, <2>12, <2>13,
             <2>14, <2>15
          DEF Next, BackgroundStep
<1> QED BY <1>1, <1>2 DEF PhasesOK

(* A new database satisfies TInv,                                            *)
LEMMA TypesInitial == Init => TInv
<1> SUFFICES ASSUME Init PROVE TInv OBVIOUS
<1>1. manifest.tail = <<>> BY DEF Init, NewDB
<1>2. /\ up = "down" /\ snapshots = <<>> /\ pinned = {} /\ edit = <<>> /\ comp = <<>>
      /\ split = FALSE /\ revived = FALSE
  BY DEF Init, Closed
<1>3. SnapshotsOK
  <2>1. <<>> \in Seq(0 .. lastSequence) OBVIOUS
  <2> QED BY <1>2, <2>1 DEF SnapshotsOK
<1>4. LogsThere BY <1>1, <1>2, EmptyIsSeq DEF LogsThere
<1> QED BY <1>2, <1>3, <1>4 DEF TInv, PinnedOK, PhasesOK

(* ... and every step keeps it.                                              *)
LEMMA TypesKept == IInv /\ DInv /\ TInv /\ [Next]_vars => TInv'
<1> SUFFICES ASSUME IInv, DInv, TInv, [Next]_vars PROVE TInv' OBVIOUS
<1>0. QueueOK /\ ShapesOK /\ NotOpenIsQuiet /\ FilesThere BY DEF IInv
<1>1. CallsOK /\ DataOK /\ RecordsOK /\ NumbersOK /\ BoundsOK BY DEF DInv
<1>2. SnapshotsOK /\ PinnedOK /\ LogsThere /\ PhasesOK BY DEF TInv
<1>3. CASE Next
  <2>1. SnapshotsOK' BY <1>0, <1>1, <1>2, <1>3, SnapshotsKept
  <2>2. PinnedOK' BY <1>0, <1>1, <1>2, <1>3, PinnedKept
  <2>3. LogsThere' BY <1>0, <1>1, <1>2, <1>3, LogsThereKept
  <2>4. PhasesOK' BY <1>0, <1>1, <1>2, <1>3, PhasesKept
  <2> QED BY <2>1, <2>2, <2>3, <2>4 DEF TInv
<1>4. CASE UNCHANGED vars
  <2>1. UNCHANGED <<logs, tables, manifest, up, logNumber, lastSequence, snapshots, pinned, edit, comp,
                    split, revived>>
    BY <1>4 DEF vars
  <2> QED BY <1>2, <2>1 DEF TInv, SnapshotsOK, PinnedOK, LogsThere, PhasesOK
<1> QED BY <1>3, <1>4

(* The element of a sequence of one or none.                                 *)
LEMMA OnlyElement ==
  ASSUME NEW s, Optional(s), NEW x \in Range(s) PROVE s # <<>> /\ x = s[1]
<1>1. s # <<>> BY DEF Range
<1>2. s = <<s[1]>> BY <1>1, OneOrNone
<1>3. DOMAIN s = {1} BY <1>2
<1> QED BY <1>1, <1>3 DEF Range

(* A file whose bounds are entries, and a version of such files, have their  *)
(* types.                                                                    *)
LEMMA BoundedTyped ==
  ASSUME NEW ts
  PROVE  /\ \A f : FileOK(f, ts) => FileType(f)
         /\ \A v : VersionBounds(v, ts) => VersionType(v)
BY DEF FileOK, Bounded, FileType, VersionBounds, VersionType

(* A record of right shape whose files are bounded has its type.             *)
LEMMA RecordTyped ==
  ASSUME NEW e, EditShape(e), NEW ts, EditBounds(e, ts) PROVE EditType(e)
<1>1. \A a \in e.add : FileType(a[2]) BY BoundedTyped DEF EditBounds
<1> QED BY <1>1 DEF EditShape, EditType

(* A sequence of one or none has at most one element.                        *)
LEMMA OptionalShort ==
  ASSUME NEW s, Optional(s) PROVE Len(s) <= 1
<1>1. CASE s = <<>> BY <1>1
<1>2. \A x : Len(<<x>>) = 1 OBVIOUS
<1>3. \A x : s = <<x>> => Len(s) = 1 BY <1>2
<1> QED BY <1>1, <1>3 DEF Optional

(* From the logs, the tables and the bounds: the directory's types,          *)
LEMMA DirectoryFollows ==
  ASSUME ShapesOK, DataOK, RecordsOK, NumbersOK, BoundsOK PROVE DirectoryTyped
<1>1. ASSUME NEW n \in DOMAIN logs
      PROVE  n \in Nat /\ EntriesOf(logs[n].recs) \subseteq Entry /\ logs[n].synced \in 0 .. Len(logs[n].recs)
  <2>1. n \in Nat /\ LogOK(logs[n]) BY DEF DataOK, LogsTyped
  <2> QED BY <2>1, LogContents DEF Contents, LogOK
<1>2. \A n \in DOMAIN tables : tables[n] \subseteq Entry /\ tables[n] # {}
  BY DEF DataOK, TablesOK, Contents
<1>3. StateShape(manifest.base) BY DEF NumbersOK
<1>4. VersionType(manifest.base.files) BY BoundedTyped DEF BoundsOK
<1>5. ASSUME NEW e \in Range(manifest.tail) PROVE EditType(e)
  <2>1. DOMAIN manifest.tail = 1 .. Len(manifest.tail) BY TailFollows
  <2>2. PICK i \in 1 .. Len(manifest.tail) : e = manifest.tail[i] BY <2>1 DEF Range
  <2>3. EditShape(e) /\ EditBounds(e, tables) BY <2>2 DEF RecordsOK, BoundsOK
  <2> QED BY <2>3, RecordTyped
<1> QED BY <1>1, <1>2, <1>3, <1>4, <1>5 DEF DirectoryTyped, StateShape

(* ... those of the database,                                                *)
LEMMA DatabaseFollows ==
  ASSUME ShapesOK, CallsOK, DataOK, RecordsOK, NumbersOK, BoundsOK, TInv PROVE DatabaseTyped
<1>1. /\ up \in {"down", "opening", "open"} /\ bgError \in BOOLEAN /\ scheduled \in BOOLEAN
      /\ Optional(imm) /\ Optional(edit) /\ Optional(comp)
  BY DEF ShapesOK
<1>2. mem \subseteq Entry BY DEF DataOK, Contents
<1>3. ASSUME NEW S \in Range(imm) PROVE S \subseteq Entry
  <2>1. imm # <<>> /\ S = imm[1] BY <1>1, OnlyElement
  <2> QED BY <2>1 DEF DataOK, Contents
<1>4. {logfileNumber, logNumber, nextFile} \subseteq Nat /\ lastSequence \in 0 .. MaxSeq
  BY DEF NumbersOK, CallsOK
<1>5. VersionType(current) /\ \A v \in pinned : VersionType(v)
  BY BoundedTyped DEF BoundsOK, TInv, PinnedOK
<1>6. snapshots \in Seq(0 .. lastSequence) BY DEF TInv, SnapshotsOK
<1>7. ASSUME NEW e \in Range(edit) PROVE EditType(e)
  <2>1. edit # <<>> /\ e = edit[1] BY <1>1, OnlyElement
  <2>2. EditShape(e) /\ EditBounds(e, tables) BY <2>1 DEF RecordsOK, BoundsOK
  <2> QED BY <2>2, RecordTyped
<1>8. ASSUME NEW c \in Range(comp) PROVE CompactionType(c)
  <2>1. comp # <<>> /\ c = comp[1] BY <1>1, OnlyElement
  <2>2. PickOK(c.pick, c.version) /\ UNION c.todo \subseteq Entry BY <2>1 DEF RecordsOK, Contents
  <2>3. VersionType(c.version) /\ \A f \in c.outs : FileType(f)
    BY <2>1, BoundedTyped DEF BoundsOK, CompBounds
  <2>4. c.phase \in {"work", "log", "move"} BY <2>1 DEF TInv, PhasesOK
  <2> QED BY <2>2, <2>3, <2>4 DEF PickOK, CompactionType
<1>9. Len(imm) <= 1 /\ Len(edit) <= 1 /\ Len(comp) <= 1 BY <1>1, OptionalShort
<1> QED BY <1>1, <1>2, <1>3, <1>4, <1>5, <1>6, <1>7, <1>8, <1>9 DEF DatabaseTyped

(* ... those of the calls and of the histories, and the logs and numbers     *)
(* that records name.                                                        *)
LEMMA TypesFollow == IInv /\ DInv /\ TInv => LevelDBTypeOK
<1> SUFFICES ASSUME IInv, DInv, TInv PROVE LevelDBTypeOK OBVIOUS
<1>0. QueueOK /\ ShapesOK /\ NotOpenIsQuiet BY DEF IInv
<1>1. CallsOK /\ DataOK /\ RecordsOK /\ NumbersOK /\ BoundsOK BY DEF DInv
<1>2. DirectoryTyped /\ DatabaseTyped BY <1>0, <1>1, DirectoryFollows, DatabaseFollows
<1>3. CallsTyped BY <1>0, <1>1 DEF QueueOK, CallsOK, CallsTyped
<1>4. GhostsTyped BY <1>1 DEF DataOK, CallsOK, TInv, PhasesOK, GhostsTyped
<1>5. ASSUME NEW e \in Range(edit)
      PROVE  e.log \in DOMAIN logs /\ e.next <= nextFile /\ logNumber <= e.log
  <2>1. edit # <<>> /\ e = edit[1] BY <1>0, OnlyElement DEF ShapesOK
  <2>2. logNumber <= e.log /\ e.next <= nextFile BY <1>1, <2>1 DEF NumbersOK
  <2> QED BY <2>1, <2>2 DEF TInv, LogsThere
<1>6. ASSUME NEW e \in Range(manifest.tail) PROVE e.log \in DOMAIN logs /\ e.next <= nextFile
  <2>1. DOMAIN manifest.tail = 1 .. Len(manifest.tail) BY <1>0, <1>1, TailFollows
  <2>2. PICK i \in 1 .. Len(manifest.tail) : e = manifest.tail[i] BY <2>1 DEF Range
  <2>3. manifest.tail # <<>> BY <2>2, EmptyIsSeq
  <2>4. up # "down" BY <1>0, <2>3 DEF NotOpenIsQuiet
  <2> QED BY <1>1, <2>2, <2>4 DEF NumbersOK, TInv, LogsThere
<1>7. up = "open" => /\ {logfileNumber, logNumber} \subseteq DOMAIN logs
                     /\ \A n \in DOMAIN logs \cup DOMAIN tables : n \in Nat /\ n < nextFile
  BY <1>1 DEF NumbersOK, DataOK, LogsTyped, TInv, LogsThere
<1> QED BY <1>2, <1>3, <1>4, <1>5, <1>6, <1>7 DEF LevelDBTypeOK

(* Every variable has its type whatever is written, flushed, merged, lost    *)
(* and recovered: sequence numbers and snapshots stay within their bounds,   *)
(* records name levels, logs that are there and file numbers below the       *)
(* counter, and a compaction's inputs are of the version it started from.    *)
THEOREM LevelDBTypeCorrect == Spec => []LevelDBTypeOK
<1>1. Init => TInv BY TypesInitial
<1>2. IInv /\ DInv /\ TInv /\ [Next]_vars => TInv' BY TypesKept
<1>3. Spec => []IInv /\ []DInv BY LevelDBInvariance, LevelDBDataInvariance
<1>4. IInv /\ DInv /\ TInv => LevelDBTypeOK BY TypesFollow
<1> QED BY <1>1, <1>2, <1>3, <1>4, PTL DEF Spec
=============================================================================
