------------------------------ MODULE LevelDB ------------------------------
(***************************************************************************)
(* The LevelDB database object (db_impl.cc, version_set.cc): writers that   *)
(* commit in groups, the log and the memtable, the background thread that   *)
(* flushes and compacts, snapshots and pinned versions, failing files, and  *)
(* the recovery of what a crash leaves.  A step is what a thread does under *)
(* the mutex, or one file operation of a stretch where it is released.      *)
(***************************************************************************)
EXTENDS LevelDBVersion, Sequences, SequencesExt

CONSTANTS
  Writers,              \* threads that call Write
  Jobs,                 \* what they may write: [ops: the batch's puts and deletes, sync]
  L0_CompactionTrigger, \* config::kL0_CompactionTrigger
  L0_StopWritesTrigger, \* config::kL0_StopWritesTrigger
  WriteBuffer,          \* entries that fill a memtable (write_buffer_size)
  kBlockSize, kHeaderSize, \* of the log format
  BatchHeader, OpBytes, \* bytes of a batch: its header, and each put or delete
  MaxSeq,               \* bound: sequence numbers given out
  Budgets               \* bounds, one of which a behaviour starts with: [jobs: what is
                        \* written, seqs: sequence numbers, readers: snapshots and pinned
                        \* versions at a time, and how many forced flushes, file faults
                        \* and crashes]

Budget == [jobs: SUBSET Jobs, seqs: 0 .. MaxSeq, readers: Nat, forced: Nat, faults: Nat,
           crashes: Nat]

ASSUME LevelDBAssumption ==
  /\ \A j \in Jobs : j \in [ops: Seq([key: Int, del: BOOLEAN]), sync: BOOLEAN]
  /\ {L0_CompactionTrigger, L0_StopWritesTrigger} \subseteq Nat \ {0}
  /\ L0_StopWritesTrigger >= L0_CompactionTrigger
  /\ WriteBuffer \in Nat \ {0}
  /\ {kBlockSize, kHeaderSize, BatchHeader, OpBytes} \subseteq Nat \ {0}
  /\ kHeaderSize < kBlockSize
  /\ MaxSeq \in Nat
  /\ \A b \in Budgets : b \in Budget

VARIABLES
  \* the directory
  logs,           \* log number -> [recs: its records, synced: how many Sync covered]
  tables,         \* table number -> its entries
  manifest,       \* [base: the state its synced records give, tail: later records]
  \* DBImpl and its VersionSet
  up,             \* "down", "opening" or "open"
  mem, imm,       \* the memtable, and <<the one being flushed>> or <<>>
  logfileNumber, logNumber, nextFile, lastSequence,
  current,        \* the current version
  snapshots,      \* snapshots_, oldest first
  pinned,         \* the versions readers hold
  bgError,
  scheduled,      \* bg_compaction_scheduled_
  edit,           \* <<e>>: LogAndApply has written record e and released the mutex
  comp,           \* <<c>>: the compaction under way
  \* Write
  queue,          \* writers_
  pc, job,        \* where each writer is, and what it writes
  group,          \* how many writers of the queue the leader commits
  \* kept for the properties
  hist,           \* the writes that took effect and no crash took back
  promised,       \* the writes acknowledged with sync
  split,          \* a compaction parted two files of one level that share a user key
  revived,        \* a manifest record reported as failed was read back
  budget          \* what is left of the bounds

disk == <<logs, tables, manifest>>
memory == <<up, mem, imm, logfileNumber, logNumber, nextFile, lastSequence, current>>
background == <<bgError, scheduled, edit, comp>>
calls == <<queue, pc, job, group>>
ghosts == <<hist, promised, split, revived>>
vars == <<logs, tables, manifest, up, mem, imm, logfileNumber, logNumber, nextFile,
          lastSequence, current, snapshots, pinned, bgError, scheduled, edit, comp,
          queue, pc, job, group, hist, promised, split, revived, budget>>

Keys == {o.key : o \in UNION {Range(j.ops) : j \in Jobs}}
Entry == EntryOf(Keys, MaxSeq)
NoJob == [ops |-> <<>>, sync |-> FALSE]
EntriesOf(recs) == UNION Range(recs)
Table(n) == TableIn(tables, n)
LiveTables(v) == UNION {Table(f.number) : f \in FilesOf(v)}

(* The state a manifest record leaves when it is applied to state st.       *)
Applied(st, e) == [files |-> BuilderSaveTo(st.files, e), log |-> e.log,
                   next |-> e.next, seq |-> e.seq]
AppliedAll(st, es) == FoldLeft(Applied, st, es)

(***************************************************************************)
(* Reads.                                                                   *)
(***************************************************************************)

(* DBImpl::Get: the memtable, the one being flushed, the current version.   *)
Get(k, s) ==
  LET inMem == Newest(mem, k, s)
      inImm == Newest(UNION Range(imm), k, s)
  IN  CASE inMem # {} -> inMem
        [] inMem = {} /\ inImm # {} -> inImm
        [] OTHER -> VersionGet(current, tables, k, s)

(* An iterator merges all of them (NewInternalIterator).                    *)
Seek(k, s) == FindNextUserEntry(mem \cup (UNION Range(imm)) \cup LiveTables(current), k, s)

(***************************************************************************)
(* Helpers of the steps.                                                    *)
(***************************************************************************)

\* Mutants: the current log is taken for an old one; outputs under way are not counted;
\* deletes although the last record's fate is unknown.
DeleteObsoleteFilesPastLog(vs, n, outs) ==
  LET live == {f.number : f \in (UNION {FilesOf(v) : v \in vs}) \cup outs}
  IN  IF bgError THEN UNCHANGED <<tables, logs>>
      ELSE /\ tables' = Restrict(tables, DOMAIN tables \cap live)
           /\ logs' = Restrict(logs, {m \in DOMAIN logs : m > n})

DeleteObsoleteFilesNoPending(vs, n, outs) ==
  LET live == {f.number : f \in UNION {FilesOf(v) : v \in vs}}
  IN  IF bgError THEN UNCHANGED <<tables, logs>>
      ELSE /\ tables' = Restrict(tables, DOMAIN tables \cap live)
           /\ logs' = Restrict(logs, {m \in DOMAIN logs : m >= n})

DeleteObsoleteFilesAnyway(vs, n, outs) ==
  LET live == {f.number : f \in (UNION {FilesOf(v) : v \in vs}) \cup outs}
  IN  /\ tables' = Restrict(tables, DOMAIN tables \cap live)
      /\ logs' = Restrict(logs, {m \in DOMAIN logs : m >= n})

(* DeleteObsoleteFiles, when vs are the versions still referred to, n is the *)
(* log number and outs are the pending outputs.                             *)
DeleteObsoleteFiles(vs, n, outs) ==
  LET live == {f.number : f \in (UNION {FilesOf(v) : v \in vs}) \cup outs}
  IN  IF bgError THEN UNCHANGED <<tables, logs>>
      ELSE /\ tables' = Restrict(tables, DOMAIN tables \cap live)
           /\ logs' = Restrict(logs, {m \in DOMAIN logs : m >= n})

(* MaybeScheduleCompaction, when none is scheduled: version v and immutable *)
(* memtable m are the new ones.  The scores of the levels below 0 depend on *)
(* bytes (Finalize).                                                        *)
MaybeScheduleCompaction(err, v, m) ==
  CASE err -> {FALSE}
    [] ~err /\ (m # <<>> \/ Cardinality(v[0]) >= L0_CompactionTrigger) -> {TRUE}
    [] OTHER -> {FALSE} \cup {TRUE : l \in {k \in 1 .. NumLevels - 2 : v[k] # {}}}

(* bg_cv_.SignalAll: MakeRoomForWrite looks again, TEST_CompactMemTable      *)
(* returns if the flush is over or there is an error.                       *)
SignalAll(p, over) ==
  [w \in Writers |-> CASE p[w] = "bgwait" -> "ready"
                       [] p[w] = "flushwait" /\ over -> "idle"
                       [] OTHER -> p[w]]

IsNull(w) == job[w].ops = <<>>

\* Mutant: the new head of the queue is not signalled.
PopGroupSilent(p, n, flushing) ==
  LET done == {queue[i] : i \in 1 .. n}
  IN  /\ queue' = SubSeq(queue, n + 1, Len(queue))
      /\ group' = 0
      /\ job' = [w \in Writers |-> IF w \in done THEN NoJob ELSE job[w]]
      /\ pc' = [w \in Writers |-> CASE w \in done /\ IsNull(w) /\ flushing -> "flushwait"
                                    [] w \in done /\ ~(IsNull(w) /\ flushing) -> "idle"
                                    [] OTHER -> p[w]]

(* The end of Write: the group's writers return, the new head is woken.  A  *)
(* caller with no batch goes on to wait for the flush, if there is one.  p  *)
(* is where the writers were.                                               *)
PopGroup(p, n, flushing) ==
  LET done == {queue[i] : i \in 1 .. n}
      rest == SubSeq(queue, n + 1, Len(queue))
  IN  /\ queue' = rest
      /\ group' = 0
      /\ job' = [w \in Writers |-> IF w \in done THEN NoJob ELSE job[w]]
      /\ pc' = [w \in Writers |-> CASE w \in done /\ IsNull(w) /\ flushing -> "flushwait"
                                    [] w \in done /\ ~(IsNull(w) /\ flushing) -> "idle"
                                    [] w \notin done /\ rest # <<>> /\ w = Head(rest) -> "ready"
                                    [] OTHER -> p[w]]

(* The batches of the first n writers one after the other                   *)
(* (WriteBatchInternal::Append), and their entries: consecutive sequence    *)
(* numbers.                                                                 *)
OpsOf(n) == FlattenSeq([i \in 1 .. n |-> job[queue[i]].ops])
Batch(n) == {[key |-> OpsOf(n)[i].key, seq |-> lastSequence + i, del |-> OpsOf(n)[i].del] :
             i \in DOMAIN OpsOf(n)}
LastSequenceAfter(n) == lastSequence + Len(OpsOf(n))

Fault == budget.faults > 0 /\ budget' = [budget EXCEPT !.faults = @ - 1]

(***************************************************************************)
(* Init: the files NewDB makes, nothing open.                               *)
(***************************************************************************)
Closed ==
  /\ up = "down" /\ mem = {} /\ imm = <<>> /\ logfileNumber = 0 /\ logNumber = 0
  /\ nextFile = 0 /\ lastSequence = 0 /\ current = NoFiles
  /\ snapshots = <<>> /\ pinned = {}
  /\ bgError = FALSE /\ scheduled = FALSE /\ edit = <<>> /\ comp = <<>>
  /\ queue = <<>> /\ group = 0
  /\ pc = [w \in Writers |-> "idle"] /\ job = [w \in Writers |-> NoJob]

NewDB ==
  /\ logs = <<>> /\ tables = <<>>
  /\ manifest = [base |-> [files |-> NoFiles, log |-> 0, next |-> 2, seq |-> 0],
                 tail |-> <<>>]

Init ==
  /\ NewDB /\ Closed
  /\ hist = {} /\ promised = {} /\ split = FALSE /\ revived = FALSE
  /\ budget \in Budgets

(***************************************************************************)
(* Write.                                                                   *)
(***************************************************************************)

(* A call joins the queue; the first in it goes on, the others wait.  A call *)
(* with no batch is TEST_CompactMemTable's.                                  *)
Write(w, j) ==
  /\ up = "open" /\ pc[w] = "idle"
  /\ IF j.ops = <<>>
     THEN budget.forced > 0 /\ budget' = [budget EXCEPT !.forced = @ - 1]
     ELSE LastSequenceAfter(Len(queue)) + Len(j.ops) <= budget.seqs /\ UNCHANGED budget
  /\ queue' = Append(queue, w)
  /\ job' = [job EXCEPT ![w] = j]
  /\ pc' = [pc EXCEPT ![w] = IF queue = <<>> THEN "ready" ELSE "sleep"]
  /\ UNCHANGED <<disk, memory, snapshots, pinned, background, group, ghosts>>

(* No room in the memtable, or a flush is forced.                           *)
Full(w) == IsNull(w) \/ Cardinality(mem) >= WriteBuffer
MustWait == imm # <<>> \/ Cardinality(current[0]) >= L0_StopWritesTrigger

(* MakeRoomForWrite gives up: a background error, or no new log file.       *)
MakeRoomFails(w) ==
  /\ pc[w] = "ready"
  /\ \/ bgError /\ UNCHANGED budget
     \/ ~bgError /\ Full(w) /\ ~MustWait /\ Fault
  /\ PopGroup(pc, 1, FALSE)
  /\ UNCHANGED <<disk, memory, snapshots, pinned, background, ghosts>>

(* MakeRoomForWrite waits for the background thread.                        *)
MakeRoomWaits(w) ==
  /\ pc[w] = "ready" /\ ~bgError /\ Full(w) /\ MustWait
  /\ pc' = [pc EXCEPT ![w] = "bgwait"]
  /\ UNCHANGED <<disk, memory, snapshots, pinned, background, queue, job, group, ghosts,
                 budget>>

(* MakeRoomForWrite switches to a new memtable and a new log; that is all a *)
(* call with no batch is for.                                               *)
SwitchMemTable(w) ==
  /\ pc[w] = "ready" /\ ~bgError /\ Full(w) /\ ~MustWait
  /\ logs' = [n \in DOMAIN logs \cup {nextFile} |->
               IF n = nextFile THEN [recs |-> <<>>, synced |-> 0] ELSE logs[n]]
  /\ logfileNumber' = nextFile
  /\ nextFile' = nextFile + 1
  /\ imm' = <<mem>> /\ mem' = {}
  /\ scheduled' \in MaybeScheduleCompaction(bgError, current, <<mem>>)
  /\ IF IsNull(w) THEN PopGroup(pc, 1, TRUE) ELSE UNCHANGED calls
  /\ UNCHANGED <<tables, manifest, up, logNumber, lastSequence, current, snapshots, pinned,
                 bgError, edit, comp, ghosts, budget>>

\* Mutant: a sync write rides in the group of a leader that does not sync.
BuildBatchGroupAnySync == 1 .. Len(queue)

(* BuildBatchGroup: how many writers the head of the queue may commit.  The *)
(* group ends where its bytes reach a limit, and before a sync write when   *)
(* the head does not sync.                                                  *)
BuildBatchGroup ==
  {n \in 1 .. Len(queue) : \A i \in 1 .. n : job[queue[i]].sync => job[queue[1]].sync}

AddedRecord(n) == [logs EXCEPT ![logfileNumber].recs = Append(@, Batch(n))]

(* The leader writes the group's record to the log, without the mutex.      *)
AddRecord(w) ==
  /\ pc[w] = "ready" /\ ~bgError /\ ~Full(w)
  /\ \E n \in BuildBatchGroup : group' = n /\ logs' = AddedRecord(n)
  /\ pc' = [pc EXCEPT ![w] = "logged"]
  /\ UNCHANGED <<tables, manifest, memory, snapshots, pinned, background, queue, job, ghosts,
                 budget>>

(* The record cannot be written, or is written and reported as failed: the  *)
(* group fails, its sequence numbers are used up.                           *)
AddRecordFails(w) ==
  /\ pc[w] = "ready" /\ ~bgError /\ ~Full(w)
  /\ Fault
  /\ \E n \in BuildBatchGroup :
       /\ logs' \in {logs, AddedRecord(n)}
       /\ lastSequence' = LastSequenceAfter(n)
       /\ PopGroup(pc, n, FALSE)
  /\ UNCHANGED <<tables, manifest, up, mem, imm, logfileNumber, logNumber, nextFile, current,
                 snapshots, pinned, background, ghosts>>

(* A failed sync fails the group and every later write.                     *)
SyncFails(w) ==
  /\ pc[w] = "logged" /\ job[w].sync
  /\ Fault
  /\ bgError' = TRUE
  /\ lastSequence' = LastSequenceAfter(group)
  /\ PopGroup(SignalAll(pc, TRUE), group, FALSE)
  /\ UNCHANGED <<disk, up, mem, imm, logfileNumber, logNumber, nextFile, current, snapshots,
                 pinned, scheduled, edit, comp, ghosts>>

(* The log is synced if the leader asks for it, the batch is inserted into  *)
(* the memtable, SetLastSequence, and the group returns.  (A crash between  *)
(* the sync and the return leaves what one before the sync may leave.)      *)
SyncAndInsert(w) ==
  /\ pc[w] = "logged"
  /\ logs' = IF job[w].sync
             THEN [logs EXCEPT ![logfileNumber].synced = Len(logs[logfileNumber].recs)]
             ELSE logs
  /\ mem' = mem \cup Batch(group)
  /\ lastSequence' = LastSequenceAfter(group)
  /\ hist' = hist \cup Batch(group)
  /\ promised' = promised \cup UNION {Batch(i) \ Batch(i - 1) : i \in {k \in 1 .. group : job[queue[k]].sync}}
  /\ PopGroup(pc, group, imm # <<>> /\ ~bgError)
  /\ UNCHANGED <<tables, manifest, up, imm, logfileNumber, logNumber, nextFile, current, snapshots, pinned,
                 background, split, revived, budget>>

(***************************************************************************)
(* Snapshots and readers.                                                   *)
(***************************************************************************)
Readers == Len(snapshots) + Cardinality(pinned)

GetSnapshot ==
  /\ up = "open" /\ Readers < budget.readers
  /\ snapshots' = Append(snapshots, lastSequence)
  /\ UNCHANGED <<disk, memory, pinned, background, calls, ghosts, budget>>

ReleaseSnapshot(i) ==
  /\ i \in DOMAIN snapshots
  /\ snapshots' = RemoveAt(snapshots, i)
  /\ UNCHANGED <<disk, memory, pinned, background, calls, ghosts, budget>>

(* Get and NewIterator hold a reference on the current version while they   *)
(* read without the mutex; the memtables' entries they may see are fixed.   *)
RefVersion ==
  /\ up = "open" /\ Readers < budget.readers /\ FilesOf(current) # {}
  /\ pinned' = pinned \cup {current}
  /\ UNCHANGED <<disk, memory, snapshots, background, calls, ghosts, budget>>

(* The reader is done; what it read may call for a compaction (UpdateStats, *)
(* RecordReadSample).                                                       *)
UnrefVersion ==
  /\ \E v \in pinned : pinned' = pinned \ {v}
  /\ \/ UNCHANGED scheduled
     \/ ~scheduled /\ ~bgError /\ Compactable(current) /\ scheduled' = TRUE
  /\ UNCHANGED <<disk, memory, snapshots, bgError, edit, comp, calls, ghosts, budget>>

(***************************************************************************)
(* The background thread.                                                   *)
(***************************************************************************)

(* A record of LogAndApply: the edit with the counters of this moment.      *)
VersionEdit(log, next, del, add) ==
  [log |-> log, next |-> next, seq |-> lastSequence, del |-> del, add |-> add]

LogRecord(e) ==
  /\ edit' = <<e>>
  /\ manifest' = [manifest EXCEPT !.tail = Append(@, e)]

(* The manifest is synced: its records are the state a restart reads.       *)
SyncManifest ==
  /\ manifest' = [base |-> AppliedAll(manifest.base, manifest.tail), tail |-> <<>>]
  /\ revived' = (revived \/ Len(manifest.tail) > 1)

(* CompactMemTable runs as the background work, or inside the loop of a     *)
(* compaction, which looks at has_imm_ before each entry.                   *)
MayFlush ==
  /\ up = "open" /\ imm # <<>> /\ edit = <<>> /\ scheduled
  /\ \/ comp = <<>> /\ ~bgError
     \/ \E c \in Range(comp) : c.phase = "work" /\ (c.todo # {} \/ c.outs = {})

(* CompactMemTable up to the sync of the manifest: WriteLevel0Table builds  *)
(* and syncs the table, LogAndApply writes the record.                      *)
WriteLevel0Table ==
  /\ MayFlush
  /\ LET f == FileMetaData(nextFile, imm[1])
     IN  IF imm[1] = {}
         THEN tables' = tables /\ LogRecord(VersionEdit(logfileNumber, nextFile + 1, {}, {}))
         ELSE /\ tables' = [n \in DOMAIN tables \cup {nextFile} |->
                              IF n = nextFile THEN imm[1] ELSE tables[n]]
              /\ \E l \in PickLevelForMemTableOutput(current, GetRange({f})) :
                   LogRecord(VersionEdit(logfileNumber, nextFile + 1, {}, {<<l, f>>}))
  /\ nextFile' = nextFile + 1
  /\ UNCHANGED <<logs, up, mem, imm, logfileNumber, logNumber, lastSequence, current,
                 snapshots, pinned, bgError, scheduled, comp, calls, ghosts, budget>>

Flushing == edit # <<>> /\ up = "open" /\ \A c \in Range(comp) : c.phase = "work"

(* CompactMemTable installs the version and drops the flushed memtable.     *)
FlushInstalled ==
  /\ Flushing
  /\ LET v == BuilderSaveTo(current, edit[1])
     IN  /\ SyncManifest
         /\ current' = v
         /\ logNumber' = edit[1].log
         /\ imm' = <<>>
         /\ DeleteObsoleteFiles({v} \cup pinned \cup {c.version : c \in Range(comp)},
                                edit[1].log, UNION {c.outs : c \in Range(comp)})
         /\ IF comp = <<>> THEN scheduled' \in MaybeScheduleCompaction(bgError, v, <<>>)
            ELSE UNCHANGED scheduled
  /\ edit' = <<>>
  /\ pc' = SignalAll(pc, TRUE)
  /\ UNCHANGED <<up, mem, logfileNumber, nextFile, lastSequence, snapshots, pinned, bgError,
                 comp, queue, job, group, hist, promised, split, budget>>

(* The table cannot be built, or the manifest cannot be written or synced:  *)
(* the record may be there all the same.  RecordBackgroundError.            *)
FlushFails ==
  /\ Fault
  /\ \/ MayFlush /\ nextFile' = nextFile + 1
     \/ Flushing /\ UNCHANGED nextFile
  /\ bgError' = TRUE
  /\ edit' = <<>>
  /\ scheduled' = (comp # <<>>)
  /\ pc' = SignalAll(pc, TRUE)
  /\ UNCHANGED <<disk, up, mem, imm, logfileNumber, logNumber, lastSequence, current,
                 snapshots, pinned, comp, queue, job, group, ghosts>>

(* BackgroundCall after an error does nothing.                              *)
BackgroundCallStops ==
  /\ up = "open" /\ scheduled /\ bgError /\ comp = <<>> /\ edit = <<>>
  /\ scheduled' = FALSE
  /\ pc' = SignalAll(pc, TRUE)
  /\ UNCHANGED <<disk, memory, snapshots, pinned, bgError, edit, comp, queue, job, group, ghosts,
                 budget>>

\* Mutant: the snapshots are not looked at.
SmallestSnapshotNow == lastSequence


SmallestSnapshot == IF snapshots = <<>> THEN lastSequence ELSE Head(snapshots)

MayCompact ==
  up = "open" /\ scheduled /\ ~bgError /\ imm = <<>> /\ comp = <<>> /\ edit = <<>>

(* BackgroundCompaction picks files and starts DoCompactionWork: the input  *)
(* version and the oldest snapshot of this moment decide what is kept.      *)
StartCompaction ==
  /\ MayCompact
  /\ \E c \in PickCompaction(current) :
       /\ FALSE \in IsTrivialMove(current, c)
       /\ LET input == UNION {Table(f.number) : f \in c.in0 \cup c.in1}
              kept == KeptEntries(input, current, c.level, SmallestSnapshot)
          IN  \E cuts \in SUBSET CutPoints(kept) :
                comp' = <<[phase |-> "work", pick |-> c, version |-> current,
                           todo |-> Outputs(kept, cuts), outs |-> {}]>>
       /\ split' = (split \/ LeavesBoundary(current, c))
  /\ UNCHANGED <<disk, memory, snapshots, pinned, bgError, scheduled, edit, calls, hist,
                 promised, revived, budget>>

(* A file that overlaps nothing below moves one level down by its record.   *)
MoveFile ==
  /\ MayCompact
  /\ \E c \in PickCompaction(current) :
       /\ TRUE \in IsTrivialMove(current, c)
       /\ comp' = <<[phase |-> "move", pick |-> c, version |-> current,
                     todo |-> {}, outs |-> {}]>>
       /\ LogRecord(VersionEdit(logNumber, nextFile, AddInputDeletions(c),
                                {<<c.level + 1, f>> : f \in c.in0}))
       /\ split' = (split \/ LeavesBoundary(current, c))
  /\ UNCHANGED <<logs, tables, memory, snapshots, pinned, bgError, scheduled, calls, hist,
                 promised, revived, budget>>

Working == edit = <<>> /\ \E c \in Range(comp) : c.phase = "work"

(* An output file is opened, filled, synced and closed; its number stays in *)
(* pending_outputs_.                                                        *)
FinishCompactionOutputFile ==
  /\ Working
  /\ \E S \in comp[1].todo :
       /\ \A T \in comp[1].todo \ {S} : \A a \in S, b \in T : Before(a, b)
       /\ tables' = [n \in DOMAIN tables \cup {nextFile} |->
                       IF n = nextFile THEN S ELSE tables[n]]
       /\ comp' = <<[comp[1] EXCEPT !.todo = @ \ {S},
                                    !.outs = @ \cup {FileMetaData(nextFile, S)}]>>
  /\ nextFile' = nextFile + 1
  /\ UNCHANGED <<logs, manifest, up, mem, imm, logfileNumber, logNumber, lastSequence, current,
                 snapshots, pinned, bgError, scheduled, edit, calls, ghosts, budget>>

(* InstallCompactionResults up to the sync of the manifest.                 *)
InstallCompactionResults ==
  /\ Working /\ comp[1].todo = {}
  /\ LET c == comp[1].pick
     IN  LogRecord(VersionEdit(logNumber, nextFile, AddInputDeletions(c),
                               {<<c.level + 1, f>> : f \in comp[1].outs}))
  /\ comp' = <<[comp[1] EXCEPT !.phase = "log"]>>
  /\ UNCHANGED <<logs, tables, memory, snapshots, pinned, bgError, scheduled, calls, ghosts,
                 budget>>

Installing == edit # <<>> /\ \E c \in Range(comp) : c.phase \in {"log", "move"}

(* The new version is installed; a compaction, unlike a move, releases its  *)
(* inputs and deletes obsolete files.                                       *)
CompactionInstalled ==
  /\ Installing
  /\ LET v == BuilderSaveTo(current, edit[1])
     IN  /\ SyncManifest
         /\ current' = v
         /\ logNumber' = edit[1].log
         /\ IF comp[1].phase = "move" THEN UNCHANGED <<tables, logs>>
            ELSE DeleteObsoleteFiles({v} \cup pinned, edit[1].log, {})
         /\ scheduled' \in MaybeScheduleCompaction(bgError, v, imm)
  /\ edit' = <<>> /\ comp' = <<>>
  /\ pc' = SignalAll(pc, bgError \/ imm = <<>>)
  /\ UNCHANGED <<up, mem, imm, logfileNumber, nextFile, lastSequence, snapshots, pinned, bgError,
                 queue, job, group, hist, promised, split, budget>>

(* A file fails before the record is written or when it is synced.          *)
CompactionFails ==
  /\ Working \/ Installing
  /\ Fault
  /\ bgError' = TRUE /\ scheduled' = FALSE
  /\ edit' = <<>> /\ comp' = <<>>
  /\ pc' = SignalAll(pc, TRUE)
  /\ UNCHANGED <<disk, memory, snapshots, pinned, queue, job, group, ghosts>>

(***************************************************************************)
(* Crash and recovery.                                                      *)
(***************************************************************************)

Log == INSTANCE LogFormat
RecordSizes(recs) == [i \in DOMAIN recs |-> BatchHeader + OpBytes * Cardinality(recs[i])]

(* The batches RecoverLogFile takes from a log of which c bytes are left,   *)
(* record by record; one that is not whole is refused.                      *)
RecordsRead(recs, c) ==
  LET sizes == RecordSizes(recs)
      read == Log!ReadRecords(Log!Written(sizes), c).out
      whole(r) == r.of \in DOMAIN recs /\ r.len = sizes[r.of]
      taken[i \in 0 .. Len(read)] ==
        IF i = 0 THEN <<>>
        ELSE IF whole(read[i]) THEN Append(taken[i - 1], recs[read[i].of])
        ELSE taken[i - 1]
  IN  taken[Len(read)]

(* What a crash leaves of a log: the bytes that were synced, and any number *)
(* of those after them.                                                     *)
RecordsLeft(l) ==
  LET synced == Log!Written(RecordSizes(SubSeq(l.recs, 1, l.synced))).length
      length == Log!Written(RecordSizes(l.recs)).length
  IN  {RecordsRead(l.recs, c) : c \in synced .. length}

(* The machine stops.  A log keeps its synced bytes and any more of them,   *)
(* the manifest any number of its unsynced records.                         *)
Crash ==
  /\ up \in {"opening", "open"} /\ budget.crashes > 0
  /\ budget' = [budget EXCEPT !.crashes = @ - 1]
  /\ \E t \in 0 .. Len(manifest.tail),
        left \in [DOMAIN logs -> UNION {RecordsLeft(logs[n]) : n \in DOMAIN logs}] :
       LET base == AppliedAll(manifest.base, SubSeq(manifest.tail, 1, t))
           read == {n \in DOMAIN logs : n >= base.log}
           back == UNION {EntriesOf(left[n]) : n \in read}
           torn == (UNION {EntriesOf(logs[n].recs) : n \in read}) \ back
       IN  /\ \A n \in DOMAIN logs : left[n] \in RecordsLeft(logs[n])
           /\ logs' = [n \in DOMAIN logs |-> [recs |-> left[n], synced |-> Len(left[n])]]
           /\ manifest' = [base |-> base, tail |-> <<>>]
           /\ hist' = (hist \ (torn \ LiveTables(base.files))) \cup back
           /\ revived' = (revived \/ (t > 0 /\ Len(manifest.tail) > Len(edit)))
  /\ up' = "down" /\ mem' = {} /\ imm' = <<>> /\ logfileNumber' = 0 /\ logNumber' = 0
  /\ nextFile' = 0 /\ lastSequence' = 0 /\ current' = NoFiles
  /\ snapshots' = <<>> /\ pinned' = {}
  /\ bgError' = FALSE /\ scheduled' = FALSE /\ edit' = <<>> /\ comp' = <<>>
  /\ queue' = <<>> /\ group' = 0
  /\ pc' = [w \in Writers |-> "idle"] /\ job' = [w \in Writers |-> NoJob]
  /\ UNCHANGED <<tables, promised, split>>

MarkFileNumberUsed(next, n) == IF next <= n THEN n + 1 ELSE next

(* RecoverLogFile for one log: its records become a table of level 0.       *)
RecoverLogFile(r, n) ==
  LET S == EntriesOf(logs[n].recs)
  IN  IF S = {} THEN [r EXCEPT !.next = MarkFileNumberUsed(@, n)]
      ELSE [next   |-> MarkFileNumberUsed(r.next + 1, n),
            tables |-> [m \in DOMAIN r.tables \cup {r.next} |->
                         IF m = r.next THEN S ELSE r.tables[m]],
            add    |-> r.add \cup {<<0, FileMetaData(r.next, S)>>},
            seq    |-> Max({r.seq} \cup {e.seq : e \in S})]

(* The logs Recover replays, in the order of their numbers.                 *)
LogsToRecover ==
  LET old == {n \in DOMAIN logs : n >= manifest.base.log}
  IN  [i \in 1 .. Cardinality(old) |->
         CHOOSE n \in old : Cardinality({m \in old : m < n}) = i - 1]

(* What Recover leaves: the manifest's own number is taken first, then the  *)
(* logs are read in the order of their numbers.                             *)
Recovered ==
  LET base == manifest.base
  IN  FoldLeft(RecoverLogFile,
               [next |-> base.next + 1, tables |-> tables, add |-> {}, seq |-> base.seq],
               LogsToRecover)

MissingFiles ==
  {f.number : f \in FilesOf(manifest.base.files)} \ (DOMAIN tables \cup DOMAIN logs)

(* DB::Open up to the new manifest: VersionSet::Recover, the logs, a new    *)
(* log and an empty memtable.                                               *)
Open ==
  /\ up = "down" /\ MissingFiles = {}
  /\ LET r == Recovered
     IN  /\ up' = "opening"
         /\ tables' = r.tables
         /\ logs' = [n \in DOMAIN logs \cup {r.next} |->
                       IF n = r.next THEN [recs |-> <<>>, synced |-> 0] ELSE logs[n]]
         /\ logfileNumber' = r.next
         /\ logNumber' = manifest.base.log
         /\ nextFile' = r.next + 1
         /\ lastSequence' = r.seq
         /\ current' = manifest.base.files
         /\ edit' = <<[log |-> r.next, next |-> r.next + 1, seq |-> r.seq,
                       del |-> {}, add |-> r.add]>>
  /\ UNCHANGED <<manifest, mem, imm, snapshots, pinned, bgError, scheduled, comp, calls, ghosts,
                 budget>>

(* LogAndApply with a new descriptor: a snapshot of the version and the     *)
(* record go to a new manifest, CURRENT is pointed at it, and the files the *)
(* new state does not need are deleted.                                     *)
OpenInstalled ==
  /\ up = "opening"
  /\ LET v == BuilderSaveTo(current, edit[1])
     IN  /\ manifest' = [base |-> Applied(manifest.base, edit[1]), tail |-> <<>>]
         /\ current' = v
         /\ logNumber' = edit[1].log
         /\ DeleteObsoleteFiles({v}, edit[1].log, {})
         /\ scheduled' \in MaybeScheduleCompaction(FALSE, v, <<>>)
  /\ up' = "open" /\ edit' = <<>>
  /\ UNCHANGED <<mem, imm, logfileNumber, nextFile, lastSequence, snapshots, pinned, bgError, comp,
                 calls, ghosts, budget>>

(***************************************************************************)
(* The specification.                                                       *)
(***************************************************************************)
WriterStep(w) ==
  \/ \E j \in budget.jobs : Write(w, j)
  \/ MakeRoomFails(w) \/ MakeRoomWaits(w) \/ SwitchMemTable(w)
  \/ AddRecord(w) \/ AddRecordFails(w) \/ SyncFails(w) \/ SyncAndInsert(w)

ReaderStep ==
  \/ GetSnapshot \/ (\E i \in DOMAIN snapshots : ReleaseSnapshot(i))
  \/ RefVersion \/ UnrefVersion

BackgroundStep ==
  \/ WriteLevel0Table \/ FlushInstalled \/ FlushFails \/ BackgroundCallStops
  \/ StartCompaction \/ MoveFile \/ FinishCompactionOutputFile
  \/ InstallCompactionResults \/ CompactionInstalled \/ CompactionFails

Next == (\E w \in Writers : WriterStep(w)) \/ ReaderStep \/ BackgroundStep
          \/ Crash \/ Open \/ OpenInstalled

Spec == Init /\ [][Next]_vars

(***************************************************************************)
(* Properties.                                                              *)
(***************************************************************************)

\* A file of a version, and a version.
FileType(f) == f.number \in Nat /\ f.smallest \in Entry /\ f.largest \in Entry
VersionType(v) == \A l \in Level : \A f \in v[l] : FileType(f)

\* A record of the manifest: the files it adds have numbers below its counter.
EditType(e) ==
  /\ e.log \in Nat /\ e.next \in Nat /\ e.seq \in 0 .. MaxSeq
  /\ \A d \in e.del : d[1] \in Level /\ d[2] \in Nat
  /\ \A a \in e.add : a[1] \in Level /\ FileType(a[2]) /\ a[2].number < e.next

\* A compaction: its inputs are of the version it started from.
CompactionType(c) ==
  /\ c.phase \in {"work", "log", "move"}
  /\ VersionType(c.version)
  /\ c.pick.level \in 0 .. NumLevels - 2
  /\ c.pick.in0 \subseteq c.version[c.pick.level]
  /\ c.pick.in1 \subseteq c.version[c.pick.level + 1]
  /\ UNION c.todo \subseteq Entry
  /\ \A f \in c.outs : FileType(f)

\* The disk; no table is empty.
DirectoryTyped ==
  /\ \A n \in DOMAIN logs : /\ n \in Nat /\ EntriesOf(logs[n].recs) \subseteq Entry
                            /\ logs[n].synced \in 0 .. Len(logs[n].recs)
  /\ \A n \in DOMAIN tables : tables[n] \subseteq Entry /\ tables[n] # {}
  /\ LET st == manifest.base
     IN  st.log \in Nat /\ st.next \in Nat /\ st.seq \in 0 .. MaxSeq /\ VersionType(st.files)
  /\ \A e \in Range(manifest.tail) : EditType(e)

\* DBImpl, its VersionSet and the background thread; no snapshot is of the future.
DatabaseTyped ==
  /\ up \in {"down", "opening", "open"}
  /\ mem \subseteq Entry /\ Len(imm) <= 1 /\ \A S \in Range(imm) : S \subseteq Entry
  /\ {logfileNumber, logNumber, nextFile} \subseteq Nat /\ lastSequence \in 0 .. MaxSeq
  /\ VersionType(current) /\ \A v \in pinned : VersionType(v)
  /\ snapshots \in Seq(0 .. lastSequence)
  /\ bgError \in BOOLEAN /\ scheduled \in BOOLEAN
  /\ Len(edit) <= 1 /\ \A e \in Range(edit) : EditType(e)
  /\ Len(comp) <= 1 /\ \A c \in Range(comp) : CompactionType(c)

\* The calls of Write.
CallsTyped ==
  /\ queue \in Seq(Writers) /\ group \in 0 .. Len(queue)
  /\ pc \in [Writers -> {"idle", "sleep", "ready", "bgwait", "logged", "flushwait"}]
  /\ job \in [Writers -> Jobs \cup {NoJob}]

\* What is kept for the properties, and the bounds.
GhostsTyped ==
  /\ hist \cup promised \subseteq Entry
  /\ split \in BOOLEAN /\ revived \in BOOLEAN /\ budget \in Budget

(* Every variable has its type.  A record of the manifest that is not yet    *)
(* installed, or was reported as failed, names a log that is there, and the  *)
(* files it adds have numbers below the counter; the record under way names  *)
(* no older log than the one installed before.  While the database is open,  *)
(* the log being written and the one last recorded are there, and every file *)
(* on disk has a number below the counter.                                   *)
LevelDBTypeOK ==
  /\ DirectoryTyped /\ DatabaseTyped /\ CallsTyped /\ GhostsTyped
  /\ \A e \in Range(edit) \cup Range(manifest.tail) : e.log \in DOMAIN logs /\ e.next <= nextFile
  /\ \A e \in Range(edit) : logNumber <= e.log
  /\ up = "open" => /\ {logfileNumber, logNumber} \subseteq DOMAIN logs
                    /\ \A n \in DOMAIN logs \cup DOMAIN tables : n \in Nat /\ n < nextFile

(* A read of any key, by Get or by an iterator, now or at a snapshot still  *)
(* held, returns the newest write in effect then, whatever was switched,    *)
(* flushed, merged, dropped, moved and replayed in between.                 *)
ReadsRight ==
  (up = "open" /\ ~split) =>
    \A k \in Keys : \A s \in {lastSequence} \cup Range(snapshots) :
      LET right == ValueOf(Newest(hist, k, s))
      IN  ValueOf(Get(k, s)) = right /\ ValueOf(Seek(k, s)) = right

(* A version someone reads or merges from, the current one, and the outputs *)
(* of the compaction under way keep their files on disk.                    *)
LiveFilesExist ==
  LET versions == {current} \cup pinned \cup {c.version : c \in Range(comp)}
      outputs == UNION {c.outs : c \in Range(comp)}
  IN  \A f \in (UNION {FilesOf(v) : v \in versions}) \cup outputs : f.number \in DOMAIN tables

(* Below level 0 the files of a level never overlap, also after a nested    *)
(* flush and after recovery.                                                *)
LevelsSorted == ~revived => SortedLevels(current)

(* Whatever instant a crash comes at, every file the manifest then names is *)
(* there and Open accepts the directory.                                    *)
OpensAfterCrash == up = "down" => MissingFiles = {}

(* Nobody waits for a signal that was already given: the head of the queue  *)
(* is awake, and who waits for the background thread waits while it runs,   *)
(* and not behind an error.                                                 *)
NoLostWakeup ==
  /\ queue # <<>> => pc[Head(queue)] # "sleep"
  /\ \A w \in Writers : pc[w] \in {"bgwait", "flushwait"} => scheduled /\ ~bgError

Store == INSTANCE KeyValueStore WITH
           Key <- Keys,
           view <- [k \in Keys |-> IF up = "open" /\ ~split
                                   THEN ValueOf(Get(k, lastSequence))
                                   ELSE ValueOf(Newest(hist, k, MaxSeq))],
           history <- hist,
           promised <- promised

(* The database is a key-value store: only a commit or a crash changes what *)
(* reads return, a commit is atomic and ordered, and no crash goes behind a *)
(* write acknowledged with sync.                                            *)
ImplementsStore == Store!StoreSpec

(* "Entries never hop across levels" (Version::Get): the entries of a user  *)
(* key in a level are newer than those in the levels below it.              *)
EntriesNeverHop ==
  \A l, m \in Level : l < m =>
    \A f \in current[l], g \in current[m] :
      \A a \in Table(f.number), b \in Table(g.number) : a.key = b.key => a.seq >= b.seq
=============================================================================
