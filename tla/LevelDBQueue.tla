--------------------------- MODULE LevelDBQueue ---------------------------
(***************************************************************************)
(* The queue of writers and the condition variables of LevelDB: each step   *)
(* keeps the discipline of the queue, a signal leaves nobody behind, and    *)
(* the calls that wait have a sequence number each.                         *)
(***************************************************************************)
EXTENDS LevelDBFiles

(* The writers in the queue.                                                *)
Waiters == {queue[i] : i \in 1 .. Len(queue)}

(* The queue writers_ has each writer once.  Its first is at work or waits  *)
(* for the background thread, all the others sleep; who is not in it is not *)
(* in Write (or waits for a flush there), and a leader that has logged has  *)
(* a group.                                                                 *)
QueueOK ==
  /\ pc \in [Writers -> {"idle", "sleep", "ready", "bgwait", "logged", "flushwait"}]
  /\ queue \in Seq(Writers)
  /\ group \in 0 .. Len(queue)
  /\ \A i, j \in 1 .. Len(queue) : queue[i] = queue[j] => i = j
  /\ \A i \in 1 .. Len(queue) :
       pc[queue[i]] \in IF i = 1 THEN {"ready", "bgwait", "logged"} ELSE {"sleep"}
  /\ \A w \in Writers : w \notin Waiters => pc[w] \in {"idle", "flushwait"}
  /\ \A w \in Writers : pc[w] = "logged" => group > 0

(* Where a writer may be.                                                   *)
PCs == {"idle", "sleep", "ready", "bgwait", "logged", "flushwait"}

(* A writer at work is the first of the queue.                              *)
LEMMA HeadOfQueue ==
  ASSUME QueueOK, NEW w \in Writers, pc[w] \in {"ready", "bgwait", "logged"}
  PROVE  Len(queue) >= 1 /\ queue[1] = w /\ queue # <<>>
<1>1. w \in Waiters BY DEF QueueOK
<1>2. PICK i \in 1 .. Len(queue) : queue[i] = w BY <1>1 DEF Waiters
<1>3. i = 1 BY <1>2 DEF QueueOK
<1>4. Len(queue) \in Nat BY DEF QueueOK
<1> QED BY <1>2, <1>3, <1>4

(* What is left of the queue when its first n leave.                        *)
LEMMA RestOfQueue ==
  ASSUME QueueOK, NEW n \in 1 .. Len(queue)
  PROVE  LET rest == SubSeq(queue, n + 1, Len(queue))
         IN  /\ rest \in Seq(Writers) /\ Len(rest) = Len(queue) - n
             /\ \A i \in 1 .. Len(queue) - n : rest[i] = queue[n + i] /\ n + i \in 2 .. Len(queue)
             /\ rest # <<>> => Len(queue) - n >= 1 /\ Head(rest) = queue[n + 1]
<1> DEFINE L == Len(queue)
           rest == SubSeq(queue, n + 1, L)
<1>1. L \in Nat /\ n \in 1 .. L /\ \A i \in 1 .. L : queue[i] \in Writers BY DEF QueueOK
<1>2. \A i \in n + 1 .. L : queue[i] \in Writers BY <1>1
<1> HIDE DEF L
<1>3. /\ rest \in Seq(Writers)
      /\ Len(rest) = IF n + 1 <= L THEN L - (n + 1) + 1 ELSE 0
      /\ \A i \in 1 .. L - (n + 1) + 1 : rest[i] = queue[n + 1 + i - 1]
  <2>1. n + 1 \in Int /\ L \in Int BY <1>1
  <2> QED BY <1>2, <2>1, SubSeqProperties
<1>4. L - (n + 1) + 1 = L - n /\ (~(n + 1 <= L) => L - n = 0) BY <1>1
<1>5. Len(rest) = L - n BY <1>3, <1>4
<1> HIDE DEF rest
<1>6. ASSUME NEW i \in 1 .. L - n PROVE rest[i] = queue[n + i] /\ n + i \in 2 .. L
  <2>1. n + 1 + i - 1 = n + i /\ n + i \in 2 .. L BY <1>1
  <2> QED BY <1>3, <1>4, <2>1
<1>7. rest # <<>> => L - n >= 1 /\ Head(rest) = queue[n + 1]
  <2> SUFFICES ASSUME rest # <<>> PROVE L - n >= 1 /\ Head(rest) = queue[n + 1] OBVIOUS
  <2>1. Len(rest) >= 1 /\ Head(rest) = rest[1] BY <1>3
  <2>2. 1 \in 1 .. L - n BY <1>1, <1>5, <2>1
  <2> QED BY <1>6, <2>1, <2>2, <1>5
<1> QED BY <1>3, <1>5, <1>6, <1>7 DEF L, rest

(* The end of Write keeps the discipline of the queue: the first that stays *)
(* is woken.  p is where the writers were.                                  *)
LEMMA PopKeepsQueue ==
  ASSUME QueueOK, NEW n \in 1 .. Len(queue), NEW p, NEW fl, p \in [Writers -> PCs],
         \A i \in 2 .. Len(queue) : p[queue[i]] = "sleep",
         \A w \in Writers : w \notin Waiters => p[w] \in {"idle", "flushwait"},
         PopGroup(p, n, fl)
  PROVE  QueueOK'
<1> DEFINE L == Len(queue)
           done == {queue[i] : i \in 1 .. n}
           rest == SubSeq(queue, n + 1, L)
<1>1. /\ L \in Nat /\ n \in 1 .. L
      /\ \A i \in 1 .. L : queue[i] \in Writers
      /\ \A i, j \in 1 .. L : queue[i] = queue[j] => i = j
  BY DEF QueueOK
<1>2. /\ rest \in Seq(Writers) /\ Len(rest) = L - n
      /\ \A i \in 1 .. L - n : rest[i] = queue[n + i] /\ n + i \in 2 .. L
      /\ rest # <<>> => L - n >= 1 /\ Head(rest) = queue[n + 1]
  BY RestOfQueue
<1>3. /\ queue' = rest /\ group' = 0
      /\ pc' = [w \in Writers |-> CASE w \in done /\ IsNull(w) /\ fl -> "flushwait"
                                    [] w \in done /\ ~(IsNull(w) /\ fl) -> "idle"
                                    [] w \notin done /\ rest # <<>> /\ w = Head(rest) -> "ready"
                                    [] OTHER -> p[w]]
  BY DEF PopGroup
<1> HIDE DEF rest, L
<1>4. \A i \in 1 .. L - n : queue[n + i] \notin done /\ queue[n + i] \in Writers
  BY <1>1
<1> HIDE DEF done
<1>5. Len(queue') = L - n BY <1>2, <1>3
<1>6. ASSUME NEW w \in Writers
      PROVE  /\ w \in done => pc'[w] \in {"idle", "flushwait"}
             /\ w \notin done => pc'[w] = IF rest # <<>> /\ w = Head(rest) THEN "ready" ELSE p[w]
  BY <1>3
<1>7. ASSUME NEW i \in 1 .. Len(queue')
      PROVE  pc[queue[i]]' \in IF i = 1 THEN {"ready", "bgwait", "logged"} ELSE {"sleep"}
  <2>1. queue'[i] = queue[n + i] /\ n + i \in 2 .. L BY <1>2, <1>3, <1>5
  <2>2. rest # <<>> BY <1>1, <1>2, <1>5
  <2>3. queue'[i] = Head(rest) <=> i = 1
    <3>1. n + 1 \in 1 .. L /\ n + i \in 1 .. L BY <1>1, <1>2, <2>1, <2>2
    <3>2. queue[n + i] = queue[n + 1] <=> i = 1 BY <1>1, <3>1
    <3> QED BY <1>2, <2>1, <2>2, <3>2
  <2>4. queue'[i] \in Writers /\ queue'[i] \notin done BY <1>4, <1>5, <2>1
  <2>5. p[queue'[i]] = "sleep" BY <2>1 DEF L
  <2> QED BY <1>6, <2>2, <2>3, <2>4, <2>5
<1>8. \A i, j \in 1 .. Len(queue') : queue'[i] = queue'[j] => i = j
  <2> SUFFICES ASSUME NEW i \in 1 .. L - n, NEW j \in 1 .. L - n, queue'[i] = queue'[j]
               PROVE  i = j
    BY <1>5
  <2>1. queue[n + i] = queue[n + j] BY <1>2, <1>3
  <2>2. n + i \in 1 .. L /\ n + j \in 1 .. L BY <1>1
  <2>3. n + i = n + j BY <1>1, <2>1, <2>2
  <2> QED BY <1>1, <2>3
<1>9. ASSUME NEW w \in Writers, w \notin done, w \notin Waiters'
      PROVE  w \notin Waiters /\ ~(rest # <<>> /\ w = Head(rest))
  <2>1. \A i \in 1 .. L - n : w # queue[n + i] BY <1>2, <1>3, <1>5, <1>9 DEF Waiters
  <2>2. \A i \in 1 .. n : w # queue[i] BY <1>9 DEF done
  <2>3. ASSUME NEW j \in 1 .. L PROVE w # queue[j]
    <3>1. CASE j <= n BY <2>2, <3>1, <1>1
    <3>2. CASE j > n
      <4>1. j - n \in 1 .. L - n /\ n + (j - n) = j BY <1>1, <3>2
      <4> QED BY <2>1, <4>1
    <3> QED BY <3>1, <3>2, <1>1
  <2>4. rest # <<>> => 1 \in 1 .. L - n BY <1>1, <1>2
  <2> QED BY <1>2, <2>1, <2>3, <2>4 DEF Waiters, L
<1>10. ASSUME NEW w \in Writers, w \notin Waiters' PROVE pc'[w] \in {"idle", "flushwait"}
  <2>1. CASE w \in done BY <1>6, <2>1
  <2>2. CASE w \notin done
    <3>1. p[w] \in {"idle", "flushwait"} BY <1>9, <1>10, <2>2
    <3> QED BY <1>6, <1>9, <1>10, <2>2, <3>1
  <2> QED BY <2>1, <2>2
<1>11. ASSUME NEW w \in Writers PROVE pc'[w] # "logged"
  <2>1. CASE w \in Waiters'
    <3>1. PICK i \in 1 .. L - n : w = queue[n + i] BY <1>2, <1>3, <1>5, <2>1 DEF Waiters
    <3>2. w \notin done /\ p[w] = "sleep" BY <1>2, <1>4, <3>1 DEF L
    <3> QED BY <1>6, <3>2
  <2>2. CASE w \notin Waiters' BY <1>10, <2>2
  <2> QED BY <2>1, <2>2
<1>12. pc' \in [Writers -> PCs]
  <2>1. \A w \in Writers : pc'[w] \in PCs BY <1>6 DEF PCs
  <2> QED BY <1>3, <2>1
<1>13. queue' \in Seq(Writers) /\ group' \in 0 .. Len(queue')
  BY <1>1, <1>2, <1>3
<1> QED BY <1>7, <1>8, <1>10, <1>11, <1>12, <1>13 DEF QueueOK, PCs

(* So does SignalAll.                                                       *)
LEMMA SignalKeepsQueue ==
  ASSUME QueueOK, NEW over, pc' = SignalAll(pc, over), UNCHANGED <<queue, group>>
  PROVE  QueueOK'
<1>1. ASSUME NEW w \in Writers
      PROVE  /\ pc[w] = "bgwait" => pc'[w] = "ready"
             /\ pc[w] = "flushwait" => pc'[w] \in {"idle", "flushwait"}
             /\ pc[w] \in {"idle", "sleep", "ready", "logged"} => pc'[w] = pc[w]
  BY DEF SignalAll
<1>2. pc' \in [Writers -> PCs]
  <2>1. \A w \in Writers : pc'[w] \in PCs BY <1>1 DEF PCs, QueueOK
  <2> QED BY <2>1 DEF SignalAll
<1>3. ASSUME NEW i \in 1 .. Len(queue)
      PROVE  pc'[queue[i]] \in IF i = 1 THEN {"ready", "bgwait", "logged"} ELSE {"sleep"}
  <2>1. queue[i] \in Writers BY DEF QueueOK
  <2>2. pc[queue[i]] \in IF i = 1 THEN {"ready", "bgwait", "logged"} ELSE {"sleep"} BY DEF QueueOK
  <2> QED BY <1>1, <2>1, <2>2
<1>4. \A w \in Writers : w \notin Waiters' => pc'[w] \in {"idle", "flushwait"}
  <2>1. Waiters' = Waiters BY DEF Waiters
  <2> QED BY <1>1, <2>1 DEF QueueOK
<1>5. \A w \in Writers : pc'[w] = "logged" => pc[w] = "logged" BY <1>1 DEF QueueOK
<1> QED BY <1>2, <1>3, <1>4, <1>5 DEF QueueOK, PCs

(* After SignalAll the writers stand as the end of Write needs them,        *)
LEMMA SignalledStand ==
  ASSUME QueueOK
  PROVE  LET p == SignalAll(pc, TRUE)
         IN  /\ p \in [Writers -> PCs]
             /\ \A i \in 2 .. Len(queue) : p[queue[i]] = "sleep"
             /\ \A w \in Writers : w \notin Waiters => p[w] \in {"idle", "flushwait"}
<1> DEFINE p == SignalAll(pc, TRUE)
<1>1. ASSUME NEW w \in Writers
      PROVE  /\ p[w] \in PCs
             /\ pc[w] = "sleep" => p[w] = "sleep"
             /\ pc[w] \in {"idle", "flushwait"} => p[w] = "idle"
  BY DEF SignalAll, QueueOK, PCs
<1>2. p \in [Writers -> PCs] BY <1>1 DEF SignalAll
<1> HIDE DEF p
<1>3. \A i \in 2 .. Len(queue) : p[queue[i]] = "sleep" BY <1>1 DEF QueueOK
<1>4. \A w \in Writers : w \notin Waiters => p[w] \in {"idle", "flushwait"} BY <1>1 DEF QueueOK
<1> QED BY <1>2, <1>3, <1>4 DEF p

(* ... and as they are they do too,                                         *)
LEMMA AsTheyStand ==
  ASSUME QueueOK
  PROVE  /\ pc \in [Writers -> PCs]
         /\ \A i \in 2 .. Len(queue) : pc[queue[i]] = "sleep"
         /\ \A w \in Writers : w \notin Waiters => pc[w] \in {"idle", "flushwait"}
BY DEF QueueOK, PCs

(* ... so the end of Write keeps the discipline from any state.             *)
LEMMA PopNow ==
  ASSUME QueueOK, NEW n \in 1 .. Len(queue), NEW fl, PopGroup(pc, n, fl)
  PROVE  QueueOK'
BY PopKeepsQueue, AsTheyStand

(* The first of the queue goes on in MakeRoomForWrite or logs its group.    *)
LEMMA MoveHeadKeepsQueue ==
  ASSUME QueueOK, NEW w \in Writers, pc[w] \in {"ready", "bgwait", "logged"},
         NEW at \in {"ready", "bgwait", "logged"}, pc' = [pc EXCEPT ![w] = at],
         UNCHANGED queue, group' \in 0 .. Len(queue), at = "logged" => group' > 0,
         at # "logged" => group' = group
  PROVE  QueueOK'
<1>1. queue[1] = w /\ Len(queue) >= 1 BY HeadOfQueue
<1>2. pc' \in [Writers -> PCs] BY DEF QueueOK, PCs
<1>3. ASSUME NEW i \in 1 .. Len(queue)
      PROVE  pc'[queue[i]] \in IF i = 1 THEN {"ready", "bgwait", "logged"} ELSE {"sleep"}
  <2>1. queue[i] \in Writers BY DEF QueueOK
  <2>2. CASE i = 1 BY <1>1, <2>1, <2>2 DEF QueueOK
  <2>3. CASE i # 1
    <3>1. queue[i] # w BY <1>1, <2>3 DEF QueueOK
    <3> QED BY <2>1, <2>3, <3>1 DEF QueueOK
  <2> QED BY <2>2, <2>3
<1>4. Waiters' = Waiters /\ w \in Waiters
  <2>1. w \in Waiters BY DEF QueueOK
  <2> QED BY <2>1 DEF Waiters
<1>5. \A u \in Writers : u \notin Waiters' => pc'[u] \in {"idle", "flushwait"}
  BY <1>4 DEF QueueOK
<1>6. \A u \in Writers : pc'[u] = "logged" => group' > 0
  BY DEF QueueOK
<1> QED BY <1>2, <1>3, <1>5, <1>6 DEF QueueOK, PCs

(* A call joins the queue: it sleeps, unless it is the first.               *)
LEMMA JoinKeepsQueue ==
  ASSUME QueueOK, NEW w \in Writers, pc[w] = "idle", queue' = Append(queue, w),
         pc' = [pc EXCEPT ![w] = IF queue = <<>> THEN "ready" ELSE "sleep"], UNCHANGED group
  PROVE  QueueOK'
<1> DEFINE L == Len(queue)
<1>1. L \in Nat /\ queue \in Seq(Writers) BY DEF QueueOK
<1>2. /\ queue' \in Seq(Writers) /\ Len(queue') = L + 1
      /\ \A i \in 1 .. L : queue'[i] = queue[i]
      /\ queue'[L + 1] = w
  BY <1>1, AppendProperties
<1>3. w \notin Waiters
  <2>1. \A i \in 1 .. L : pc[queue[i]] # "idle" BY DEF QueueOK
  <2> QED BY <2>1 DEF Waiters
<1>4. queue = <<>> <=> L = 0 BY <1>1
<1> HIDE DEF L
<1>5. pc' \in [Writers -> PCs] BY DEF QueueOK, PCs
<1>6. \A i \in 1 .. L : queue[i] # w /\ queue[i] \in Writers BY <1>3, <1>1 DEF Waiters, L
<1>7. ASSUME NEW i \in 1 .. L + 1
      PROVE  pc'[queue'[i]] \in IF i = 1 THEN {"ready", "bgwait", "logged"} ELSE {"sleep"}
  <2>1. CASE i = L + 1
    <3>1. pc'[w] = IF L = 0 THEN "ready" ELSE "sleep" BY <1>4 DEF QueueOK
    <3>2. i = 1 <=> L = 0 BY <2>1, <1>1 DEF L
    <3> QED BY <1>2, <2>1, <3>1, <3>2
  <2>2. CASE i # L + 1
    <3>1. i \in 1 .. L BY <2>2, <1>1 DEF L
    <3>2. pc'[queue[i]] = pc[queue[i]] BY <1>6, <3>1 DEF QueueOK
    <3> QED BY <1>2, <3>1, <3>2 DEF QueueOK, L
  <2> QED BY <2>1, <2>2
<1>8. \A i, j \in 1 .. L + 1 : queue'[i] = queue'[j] => i = j
  <2> SUFFICES ASSUME NEW i \in 1 .. L + 1, NEW j \in 1 .. L + 1, queue'[i] = queue'[j]
               PROVE  i = j
    OBVIOUS
  <2>1. L \in Nat BY <1>1 DEF L
  <2>2. CASE i \in 1 .. L /\ j \in 1 .. L BY <1>2, <2>2 DEF QueueOK, L
  <2>3. CASE i \in 1 .. L /\ j = L + 1 BY <1>2, <1>6, <2>3
  <2>4. CASE i = L + 1 /\ j \in 1 .. L BY <1>2, <1>6, <2>4
  <2> QED BY <2>1, <2>2, <2>3, <2>4
<1>9. ASSUME NEW u \in Writers, u \notin Waiters' PROVE u # w /\ u \notin Waiters
  <2>1. \A i \in 1 .. L + 1 : u # queue'[i] BY <1>2, <1>9 DEF Waiters
  <2>2. L + 1 \in 1 .. L + 1 /\ \A i \in 1 .. L : i \in 1 .. L + 1 BY <1>1 DEF L
  <2>3. u # w BY <1>2, <2>1, <2>2
  <2>4. \A i \in 1 .. L : u # queue[i] BY <1>2, <2>1, <2>2
  <2> QED BY <2>3, <2>4 DEF Waiters, L
<1>10. \A u \in Writers : u \notin Waiters' => pc'[u] \in {"idle", "flushwait"}
  BY <1>9 DEF QueueOK
<1>11. group' \in 0 .. Len(queue') BY <1>1, <1>2 DEF QueueOK, L
<1>12. \A u \in Writers : pc'[u] = "logged" => group' > 0 BY DEF QueueOK
<1> QED BY <1>2, <1>5, <1>7, <1>8, <1>10, <1>11, <1>12 DEF QueueOK, PCs

(* A step that touches neither the queue nor its writers.                   *)
LEMMA SameQueue ==
  ASSUME QueueOK, UNCHANGED <<queue, pc, group>>
  PROVE  QueueOK'
BY DEF QueueOK, Waiters

(* Every step of a writer keeps the discipline of the queue,                *)
LEMMA WriterKeepsQueue ==
  ASSUME QueueOK, NEW w \in Writers, WriterStep(w)
  PROVE  QueueOK'
<1>1. ASSUME NEW j \in budget.jobs, Write(w, j) PROVE QueueOK'
  <2>1. /\ pc[w] = "idle" /\ queue' = Append(queue, w) /\ UNCHANGED group
        /\ pc' = [pc EXCEPT ![w] = IF queue = <<>> THEN "ready" ELSE "sleep"]
    BY <1>1 DEF Write
  <2> QED BY <2>1, JoinKeepsQueue
<1>2. CASE MakeRoomFails(w)
  <2>1. pc[w] = "ready" /\ PopGroup(pc, 1, FALSE) BY <1>2 DEF MakeRoomFails
  <2>2. 1 \in 1 .. Len(queue) BY <2>1, HeadOfQueue DEF QueueOK
  <2> QED BY <2>1, <2>2, PopNow
<1>3. CASE MakeRoomWaits(w)
  <2>1. pc[w] = "ready" /\ pc' = [pc EXCEPT ![w] = "bgwait"] /\ UNCHANGED <<queue, group>>
    BY <1>3 DEF MakeRoomWaits
  <2>2. group' \in 0 .. Len(queue) BY <2>1 DEF QueueOK
  <2> QED BY <2>1, <2>2, MoveHeadKeepsQueue
<1>4. CASE SwitchMemTable(w)
  <2>1. pc[w] = "ready" /\ IF IsNull(w) THEN PopGroup(pc, 1, TRUE) ELSE UNCHANGED calls
    BY <1>4 DEF SwitchMemTable
  <2>2. 1 \in 1 .. Len(queue) BY <2>1, HeadOfQueue DEF QueueOK
  <2>3. CASE IsNull(w) BY <2>1, <2>2, <2>3, PopNow
  <2>4. CASE ~IsNull(w)
    <3>1. UNCHANGED <<queue, pc, group>> BY <2>1, <2>4 DEF calls
    <3> QED BY <3>1, SameQueue
  <2> QED BY <2>3, <2>4
<1>5. CASE AddRecord(w)
  <2>1. PICK n \in 1 .. Len(queue) : group' = n BY <1>5 DEF AddRecord, BuildBatchGroup
  <2>2. pc[w] = "ready" /\ pc' = [pc EXCEPT ![w] = "logged"] /\ UNCHANGED queue
    BY <1>5 DEF AddRecord
  <2>3. group' \in 0 .. Len(queue) /\ group' > 0 BY <2>1 DEF QueueOK
  <2> QED BY <2>2, <2>3, MoveHeadKeepsQueue
<1>6. CASE AddRecordFails(w)
  <2>1. PICK n \in 1 .. Len(queue) : PopGroup(pc, n, FALSE) BY <1>6 DEF AddRecordFails, BuildBatchGroup
  <2> QED BY <2>1, PopNow
<1>7. CASE SyncFails(w)
  <2>1. pc[w] = "logged" /\ PopGroup(SignalAll(pc, TRUE), group, FALSE) BY <1>7 DEF SyncFails
  <2>2. group \in 1 .. Len(queue) BY <2>1 DEF QueueOK
  <2> DEFINE p == SignalAll(pc, TRUE)
  <2>3. /\ p \in [Writers -> PCs]
        /\ \A i \in 2 .. Len(queue) : p[queue[i]] = "sleep"
        /\ \A u \in Writers : u \notin Waiters => p[u] \in {"idle", "flushwait"}
    BY SignalledStand
  <2>4. PopGroup(p, group, FALSE) BY <2>1
  <2> HIDE DEF p
  <2> QED BY <2>2, <2>3, <2>4, PopKeepsQueue
<1>8. CASE SyncAndInsert(w)
  <2>1. pc[w] = "logged" /\ PopGroup(pc, group, imm # <<>> /\ ~bgError)
    BY <1>8 DEF SyncAndInsert
  <2>2. group \in 1 .. Len(queue) BY <2>1 DEF QueueOK
  <2> QED BY <2>1, <2>2, PopNow
<1> QED BY <1>1, <1>2, <1>3, <1>4, <1>5, <1>6, <1>7, <1>8 DEF WriterStep

(* What the steps of readers change: the versions they hold, and the        *)
(* schedule.                                                                *)
LEMMA ReaderKeepsCalls ==
  ASSUME ReaderStep
  PROVE  /\ UNCHANGED <<disk, memory, bgError, edit, comp, calls, ghosts, budget>>
         /\ pinned' \subseteq pinned \cup {current}
         /\ up # "open" => pinned' \subseteq pinned
         /\ scheduled' = scheduled \/ (~scheduled /\ ~bgError /\ scheduled' = TRUE /\ pinned # {})
<1>1. CASE GetSnapshot BY <1>1 DEF GetSnapshot, background
<1>2. ASSUME NEW i \in DOMAIN snapshots, ReleaseSnapshot(i)
      PROVE  UNCHANGED <<disk, memory, pinned, background, calls, ghosts, budget>>
  BY <1>2 DEF ReleaseSnapshot
<1>3. CASE RefVersion BY <1>3 DEF RefVersion, background
<1>4. CASE UnrefVersion BY <1>4 DEF UnrefVersion
<1> QED BY <1>1, <1>2, <1>3, <1>4 DEF ReaderStep, background

(* ... and so does every step of the database.                              *)
LEMMA QueueKept ==
  ASSUME QueueOK, Next PROVE QueueOK'
<1>1. ASSUME NEW w \in Writers, WriterStep(w) PROVE QueueOK' BY <1>1, WriterKeepsQueue
<1>2. CASE ReaderStep
  <2>1. UNCHANGED <<queue, pc, group>> BY <1>2, ReaderKeepsCalls DEF calls
  <2> QED BY <2>1, SameQueue
<1>3. CASE WriteLevel0Table
  <2>1. UNCHANGED <<queue, pc, group>> BY <1>3 DEF WriteLevel0Table, calls
  <2> QED BY <2>1, SameQueue
<1>4. CASE FlushInstalled
  <2>1. pc' = SignalAll(pc, TRUE) /\ UNCHANGED <<queue, group>> BY <1>4 DEF FlushInstalled
  <2> QED BY <2>1, SignalKeepsQueue
<1>5. CASE FlushFails
  <2>1. pc' = SignalAll(pc, TRUE) /\ UNCHANGED <<queue, group>> BY <1>5 DEF FlushFails
  <2> QED BY <2>1, SignalKeepsQueue
<1>6. CASE BackgroundCallStops
  <2>1. pc' = SignalAll(pc, TRUE) /\ UNCHANGED <<queue, group>> BY <1>6 DEF BackgroundCallStops
  <2> QED BY <2>1, SignalKeepsQueue
<1>7. CASE StartCompaction
  <2>1. UNCHANGED <<queue, pc, group>> BY <1>7 DEF StartCompaction, calls
  <2> QED BY <2>1, SameQueue
<1>8. CASE MoveFile
  <2>1. UNCHANGED <<queue, pc, group>> BY <1>8 DEF MoveFile, calls
  <2> QED BY <2>1, SameQueue
<1>9. CASE FinishCompactionOutputFile
  <2>1. UNCHANGED <<queue, pc, group>> BY <1>9 DEF FinishCompactionOutputFile, calls
  <2> QED BY <2>1, SameQueue
<1>10. CASE InstallCompactionResults
  <2>1. UNCHANGED <<queue, pc, group>> BY <1>10 DEF InstallCompactionResults, calls
  <2> QED BY <2>1, SameQueue
<1>11. CASE CompactionInstalled
  <2>1. pc' = SignalAll(pc, bgError \/ imm = <<>>) /\ UNCHANGED <<queue, group>>
    BY <1>11 DEF CompactionInstalled
  <2> QED BY <2>1, SignalKeepsQueue
<1>12. CASE CompactionFails
  <2>1. pc' = SignalAll(pc, TRUE) /\ UNCHANGED <<queue, group>> BY <1>12 DEF CompactionFails
  <2> QED BY <2>1, SignalKeepsQueue
<1>13. CASE Crash
  <2>1. queue' = <<>> /\ group' = 0 /\ pc' = [w \in Writers |-> "idle"] BY <1>13 DEF Crash
  <2> QED BY <2>1 DEF QueueOK, Waiters
<1>14. CASE Open
  <2>1. UNCHANGED <<queue, pc, group>> BY <1>14 DEF Open, calls
  <2> QED BY <2>1, SameQueue
<1>15. CASE OpenInstalled
  <2>1. UNCHANGED <<queue, pc, group>> BY <1>15 DEF OpenInstalled, calls
  <2> QED BY <2>1, SameQueue
<1> QED BY <1>1, <1>2, <1>3, <1>4, <1>5, <1>6, <1>7, <1>8, <1>9, <1>10, <1>11, <1>12,
           <1>13, <1>14, <1>15 DEF Next, BackgroundStep

(* Who waits on bg_cv_.                                                     *)
Waits == {"bgwait", "flushwait"}

(* MaybeScheduleCompaction schedules what is due and nothing after an       *)
(* error.                                                                   *)
LEMMA Scheduling ==
  ASSUME NEW err, NEW v, NEW m, NEW s \in MaybeScheduleCompaction(err, v, m)
  PROVE  /\ s \in BOOLEAN
         /\ err => ~s
         /\ (~err /\ (m # <<>> \/ Cardinality(v[0]) >= L0_CompactionTrigger)) => s
<1> DEFINE busy == m # <<>> \/ Cardinality(v[0]) >= L0_CompactionTrigger
           deep == {k \in 1 .. NumLevels - 2 : v[k] # {}}
<1>1. MaybeScheduleCompaction(err, v, m) =
        CASE err -> {FALSE} [] ~err /\ busy -> {TRUE} [] OTHER -> {FALSE} \cup {TRUE : l \in deep}
  BY DEF MaybeScheduleCompaction
<1>2. \A b \in {FALSE} \cup {TRUE : l \in deep} : b \in BOOLEAN OBVIOUS
<1> HIDE DEF deep
<1>3. CASE err
  <2>1. s \in {FALSE} BY <1>1, <1>3
  <2> QED BY <1>3, <2>1
<1>4. CASE ~err /\ busy
  <2>1. s \in {TRUE} BY <1>1, <1>4
  <2> QED BY <1>4, <2>1
<1>5. CASE ~err /\ ~busy
  <2>1. s \in {FALSE} \cup {TRUE : l \in deep} BY <1>1, <1>5
  <2> QED BY <1>2, <1>5, <2>1
<1> QED BY <1>3, <1>4, <1>5

(* After the end of Write somebody waits only if he did or the call was     *)
(* told of a flush.                                                         *)
LEMMA PopWaits ==
  ASSUME NEW p, NEW n, NEW fl, PopGroup(p, n, fl), NEW u \in Writers, pc'[u] \in Waits
  PROVE  fl \/ p[u] \in Waits
<1> DEFINE done == {queue[i] : i \in 1 .. n}
           rest == SubSeq(queue, n + 1, Len(queue))
<1>1. pc' = [w \in Writers |-> CASE w \in done /\ IsNull(w) /\ fl -> "flushwait"
                                 [] w \in done /\ ~(IsNull(w) /\ fl) -> "idle"
                                 [] w \notin done /\ rest # <<>> /\ w = Head(rest) -> "ready"
                                 [] OTHER -> p[w]]
  BY DEF PopGroup
<1> HIDE DEF done, rest
<1> QED BY <1>1 DEF Waits

(* SignalAll leaves only the callers waiting whose flush is not over.       *)
LEMMA SignalWaits ==
  ASSUME NEW p, NEW over, NEW u \in Writers, SignalAll(p, over)[u] \in Waits
  PROVE  ~over /\ p[u] = "flushwait"
BY DEF SignalAll, Waits

(* Who waits on bg_cv_ waits while the background thread is scheduled and   *)
(* there is no error.                                                       *)
Awake == \A w \in Writers : pc[w] \in Waits => scheduled /\ ~bgError

(***************************************************************************)
(* The sequence numbers the queue will need.                                *)
(***************************************************************************)

(* A database that is not open has no memtable to flush, no compaction, no  *)
(* reader and no writer, and its manifest ends in what was synced.          *)
NotOpenIsQuiet ==
  up # "open" => /\ imm = <<>> /\ comp = <<>> /\ pinned = {} /\ queue = <<>>
                 /\ pc = [w \in Writers |-> "idle"]
                 /\ bgError = FALSE /\ scheduled = FALSE
                 /\ manifest.tail = <<>>
                 /\ (up = "down" <=> edit = <<>>)
                 /\ up = "opening" => current = manifest.base.files

(* One sequence after the other.                                            *)
Cat(a, b) == a \o b

(* f concatenates the first sequences of ss, up to m of them.               *)
Flattens(f, ss, m) == f = [i \in 1 .. m |-> IF i = 1 THEN ss[i] ELSE Cat(f[i - 1], ss[i])]

(* There is such a concatenation.                                           *)
LEMMA FlattensExist ==
  ASSUME NEW ss, NEW m \in Nat PROVE \E f : Flattens(f, ss, m)
<1> DEFINE S == {k \in Nat : \E f : Flattens(f, ss, k)}
<1>1. 0 \in S
  <2>1. Flattens([i \in 1 .. 0 |-> <<>>], ss, 0) BY DEF Flattens
  <2> QED BY <2>1
<1>2. ASSUME NEW k \in Nat, k \in S PROVE k + 1 \in S
  <2>1. PICK g : Flattens(g, ss, k) BY <1>2
  <2> DEFINE last == IF k + 1 = 1 THEN ss[k + 1] ELSE Cat(g[k], ss[k + 1])
             h == [n \in 1 .. k + 1 |-> IF n = k + 1 THEN last ELSE g[n]]
             e == [n \in 1 .. k + 1 |-> IF n = 1 THEN ss[n] ELSE Cat(h[n - 1], ss[n])]
  <2>2. ASSUME NEW n \in 1 .. k + 1 PROVE h[n] = e[n]
    <3>1. CASE n = k + 1
      <4>1. h[n] = last BY <3>1
      <4>2. CASE k = 0
        <5>1. n = 1 BY <3>1, <4>2
        <5>2. e[n] = ss[n] BY <5>1
        <5>3. last = ss[n] BY <3>1, <4>2
        <5> HIDE DEF h, e, last
        <5> QED BY <4>1, <5>2, <5>3
      <4>3. CASE k # 0
        <5>1. n # 1 /\ n - 1 = k /\ k \in 1 .. k + 1 /\ k # k + 1 BY <3>1, <4>3
        <5>2. h[k] = g[k] BY <5>1
        <5>3. e[n] = Cat(h[k], ss[n]) BY <5>1
        <5>4. last = Cat(g[k], ss[n]) BY <3>1, <4>3
        <5> HIDE DEF h, e, last
        <5> QED BY <4>1, <5>2, <5>3, <5>4
      <4> QED BY <4>2, <4>3
    <3>2. CASE n # k + 1
      <4>1. n \in 1 .. k BY <3>2
      <4>2. h[n] = g[n] BY <3>2
      <4>3. g[n] = IF n = 1 THEN ss[n] ELSE Cat(g[n - 1], ss[n]) BY <2>1, <4>1 DEF Flattens
      <4>4. e[n] = IF n = 1 THEN ss[n] ELSE Cat(h[n - 1], ss[n]) OBVIOUS
      <4>5. n # 1 => h[n - 1] = g[n - 1]
        <5> SUFFICES ASSUME n # 1 PROVE h[n - 1] = g[n - 1] OBVIOUS
        <5>1. n - 1 \in 1 .. k + 1 /\ n - 1 # k + 1 BY <4>1
        <5> QED BY <5>1
      <4> HIDE DEF h, e, last
      <4> QED BY <4>2, <4>3, <4>4, <4>5
    <3> QED BY <3>1, <3>2
  <2>3. h = e BY <2>2
  <2>4. Flattens(h, ss, k + 1) BY <2>3 DEF Flattens
  <2> HIDE DEF h
  <2> QED BY <2>4
<1> HIDE DEF S
<1>3. m \in S BY <1>1, <1>2, NatSetInduction
<1> QED BY <1>3 DEF S

(* Two that start from the same sequences agree.                            *)
LEMMA FlattensAgree ==
  ASSUME NEW f, NEW g, NEW s, NEW t, NEW m \in Nat, NEW n \in Nat,
         Flattens(f, s, m), Flattens(g, t, n), m <= n, \A i \in 1 .. m : s[i] = t[i]
  PROVE  \A i \in 1 .. m : f[i] = g[i]
<1> DEFINE S == {k \in Nat : k + 1 <= m => f[k + 1] = g[k + 1]}
<1>0. /\ \A i \in 1 .. m : f[i] = IF i = 1 THEN s[i] ELSE Cat(f[i - 1], s[i])
      /\ \A i \in 1 .. n : g[i] = IF i = 1 THEN t[i] ELSE Cat(g[i - 1], t[i])
  BY DEF Flattens
<1>1. 0 \in S BY <1>0
<1>2. ASSUME NEW k \in Nat, k \in S PROVE k + 1 \in S
  <2> SUFFICES ASSUME k + 1 + 1 <= m PROVE f[k + 1 + 1] = g[k + 1 + 1] OBVIOUS
  <2>1. k + 1 + 1 \in 1 .. m /\ k + 1 + 1 \in 1 .. n /\ k + 1 + 1 # 1 /\ k + 1 + 1 - 1 = k + 1
        /\ k + 1 <= m
    OBVIOUS
  <2>2. f[k + 1] = g[k + 1] BY <1>2, <2>1
  <2>3. f[k + 1 + 1] = Cat(f[k + 1], s[k + 1 + 1]) BY <1>0, <2>1
  <2>4. g[k + 1 + 1] = Cat(g[k + 1], t[k + 1 + 1]) BY <1>0, <2>1
  <2>5. s[k + 1 + 1] = t[k + 1 + 1] BY <2>1
  <2> HIDE DEF S
  <2> QED BY <2>2, <2>3, <2>4, <2>5
<1>3. \A k \in Nat : k \in S
  <2> HIDE DEF S
  <2> QED BY <1>1, <1>2, NatSetInduction
<1> SUFFICES ASSUME NEW i \in 1 .. m PROVE f[i] = g[i] OBVIOUS
<1>4. i - 1 \in Nat /\ i - 1 + 1 = i /\ i <= m OBVIOUS
<1> QED BY <1>3, <1>4

(* The first n sequences of s, one after the other.                         *)
Joined(s, n) == FlattenSeq([i \in 1 .. n |-> s[i]])

(* They are the last of a concatenation.                                    *)
LEMMA JoinedFlattens ==
  ASSUME NEW s, NEW n \in Nat, n # 0
  PROVE  \E f : Flattens(f, s, n) /\ Joined(s, n) = f[n]
<1> DEFINE ss == [i \in 1 .. n |-> s[i]]
           flat == CHOOSE f : Flattens(f, ss, n)
<1>1. Len(ss) = n OBVIOUS
<1>2. Flattens(flat, ss, n) BY FlattensExist
<1>3. Joined(s, n) = flat[n] BY <1>1 DEF Joined, FlattenSeq, Flattens, Cat
<1>4. Flattens(flat, s, n)
  <2>1. \A i \in 1 .. n : ss[i] = s[i] OBVIOUS
  <2> HIDE DEF ss, flat
  <2> QED BY <1>2, <2>1 DEF Flattens
<1> HIDE DEF flat
<1> QED BY <1>3, <1>4

(* None, and one more.                                                      *)
LEMMA JoinedStep ==
  ASSUME NEW T, NEW s, NEW n \in Nat, \A i \in 1 .. n + 1 : s[i] \in Seq(T)
  PROVE  Joined(s, 0) = <<>> /\ Joined(s, n + 1) = Joined(s, n) \o s[n + 1]
<1>1. Joined(s, 0) = <<>>
  <2>1. [i \in 1 .. 0 |-> s[i]] = <<>> OBVIOUS
  <2> QED BY <2>1 DEF Joined, FlattenSeq
<1>2. PICK g : Flattens(g, s, n + 1) /\ Joined(s, n + 1) = g[n + 1] BY JoinedFlattens
<1>3. CASE n = 0
  <2>1. g[n + 1] = s[n + 1] BY <1>2, <1>3 DEF Flattens
  <2>2. s[n + 1] \in Seq(T) OBVIOUS
  <2>3. <<>> \o s[n + 1] = s[n + 1] BY <2>2, ConcatEmptySeq
  <2> QED BY <1>1, <1>2, <1>3, <2>1, <2>3
<1>4. CASE n # 0
  <2>1. PICK f : Flattens(f, s, n) /\ Joined(s, n) = f[n] BY <1>4, JoinedFlattens
  <2>2. n + 1 \in Nat /\ n <= n + 1 /\ n \in 1 .. n BY <1>4
  <2>3. f[n] = g[n] BY <1>2, <2>1, <2>2, FlattensAgree
  <2>4. n + 1 \in 1 .. n + 1 /\ n + 1 # 1 /\ n + 1 - 1 = n BY <1>4
  <2>5. g[n + 1] = Cat(g[n], s[n + 1]) BY <1>2, <2>4 DEF Flattens
  <2> QED BY <1>1, <1>2, <2>1, <2>3, <2>5 DEF Cat
<1> QED BY <1>3, <1>4

(* Joined sequences are a sequence.                                         *)
LEMMA JoinedIsSeq ==
  ASSUME NEW T, NEW s, NEW n \in Nat, \A i \in 1 .. n : s[i] \in Seq(T)
  PROVE  \A k \in 0 .. n : Joined(s, k) \in Seq(T)
<1> DEFINE S == {k \in Nat : k <= n => Joined(s, k) \in Seq(T)}
<1>1. 0 \in S
  <2>1. Joined(s, 0) = <<>>
    <3>1. [i \in 1 .. 0 |-> s[i]] = <<>> OBVIOUS
    <3> QED BY <3>1 DEF Joined, FlattenSeq
  <2>2. <<>> \in Seq(T) OBVIOUS
  <2>3. Joined(s, 0) \in Seq(T) BY <2>1, <2>2, Zenon
  <2> QED BY <2>3
<1>2. ASSUME NEW k \in Nat, k \in S PROVE k + 1 \in S
  <2> SUFFICES ASSUME k + 1 <= n PROVE Joined(s, k + 1) \in Seq(T) OBVIOUS
  <2>1. \A i \in 1 .. k + 1 : s[i] \in Seq(T) OBVIOUS
  <2>2. Joined(s, k + 1) = Joined(s, k) \o s[k + 1] BY <2>1, JoinedStep
  <2>3. Joined(s, k) \in Seq(T) /\ s[k + 1] \in Seq(T) BY <1>2, <2>1
  <2> QED BY <2>2, <2>3, ConcatProperties
<1>3. \A k \in Nat : k \in S
  <2> HIDE DEF S
  <2> QED BY <1>1, <1>2, NatSetInduction
<1> QED BY <1>3

(* The length of two sequences one after the other.                         *)
LEMMA CatLength ==
  ASSUME NEW T, NEW a \in Seq(T), NEW b \in Seq(T)
  PROVE  Len(a \o b) = Len(a) + Len(b) /\ Len(a) \in Nat /\ Len(b) \in Nat
BY ConcatProperties, LenProperties

(* The first m of s are sequences of elements of T.                         *)
AllSeqs(s, m, T) == \A i \in 1 .. m : s[i] \in Seq(T)

(* t has those of the first m of s that are behind the first n.             *)
Behind(t, s, m, n) == \A i \in 1 .. m - n : t[i] = s[n + i]

(* The first n, and then those behind them.                                 *)
LEMMA JoinedParts ==
  ASSUME NEW T, NEW s, NEW m \in Nat, AllSeqs(s, m, T),
         NEW n \in 0 .. m, NEW t, Behind(t, s, m, n)
  PROVE  \A k \in 0 .. m - n : Len(Joined(s, n + k)) = Len(Joined(s, n)) + Len(Joined(t, k))
<1> DEFINE S == {k \in Nat : k <= m - n =>
                   Len(Joined(s, n + k)) = Len(Joined(s, n)) + Len(Joined(t, k))}
<1>a. /\ \A i \in 1 .. m : s[i] \in Seq(T)
      /\ \A i \in 1 .. m - n : t[i] = s[n + i]
  BY DEF AllSeqs, Behind
<1>0. \A k \in 0 .. m : Joined(s, k) \in Seq(T) BY <1>a, JoinedIsSeq
<1>t. \A k \in 0 .. m - n : Joined(t, k) \in Seq(T)
  <2>1. m - n \in Nat /\ \A i \in 1 .. m - n : t[i] \in Seq(T) BY <1>a
  <2> QED BY <2>1, JoinedIsSeq
<1>1. 0 \in S
  <2>1. Joined(t, 0) = <<>>
    <3>1. [i \in 1 .. 0 |-> t[i]] = <<>> OBVIOUS
    <3> QED BY <3>1 DEF Joined, FlattenSeq
  <2>2. Joined(s, n) \in Seq(T) BY <1>0
  <2>3. Len(Joined(s, n)) \in Nat BY <2>2, LenProperties
  <2>4. Len(<<>>) = 0 /\ n + 0 = n OBVIOUS
  <2> QED BY <2>1, <2>3, <2>4
<1>2. ASSUME NEW k \in Nat, k \in S PROVE k + 1 \in S
  <2> SUFFICES ASSUME k + 1 <= m - n
               PROVE  Len(Joined(s, n + (k + 1))) = Len(Joined(s, n)) + Len(Joined(t, k + 1))
    OBVIOUS
  <2>1. /\ n + k \in Nat /\ n + (k + 1) = n + k + 1 /\ k <= m - n /\ n + k \in 0 .. m /\ n \in 0 .. m
        /\ n + k + 1 \in 1 .. m
    OBVIOUS
  <2>2. \A i \in 1 .. n + k + 1 : s[i] \in Seq(T) BY <1>a, <2>1
  <2>3. \A i \in 1 .. k + 1 : t[i] \in Seq(T) BY <1>a, <2>1
  <2>4. Joined(s, n + k + 1) = Joined(s, n + k) \o s[n + k + 1] BY <2>1, <2>2, JoinedStep
  <2>5. Joined(t, k + 1) = Joined(t, k) \o t[k + 1] BY <2>3, JoinedStep
  <2>6. t[k + 1] = s[n + k + 1] BY <1>a, <2>1
  <2>7. /\ Joined(s, n + k) \in Seq(T) /\ Joined(t, k) \in Seq(T) /\ s[n + k + 1] \in Seq(T)
        /\ Joined(s, n) \in Seq(T)
    BY <1>0, <1>t, <2>1, <2>2
  <2> HIDE DEF S
  <2>8. Len(Joined(s, n + k + 1)) = Len(Joined(s, n + k)) + Len(s[n + k + 1])
    <3>1. Len(Joined(s, n + k) \o s[n + k + 1]) = Len(Joined(s, n + k)) + Len(s[n + k + 1])
      BY <2>7, CatLength
    <3> QED BY <2>4, <3>1, Zenon
  <2>9. Joined(t, k + 1) = Joined(t, k) \o s[n + k + 1] BY <2>5, <2>6, Zenon
  <2>10. Len(Joined(t, k) \o s[n + k + 1]) = Len(Joined(t, k)) + Len(s[n + k + 1])
    BY <2>7, CatLength
  <2>11. Len(Joined(s, n + k)) = Len(Joined(s, n)) + Len(Joined(t, k)) BY <1>2, <2>1 DEF S
  <2>12. Len(Joined(s, n)) \in Nat /\ Len(Joined(t, k)) \in Nat /\ Len(s[n + k + 1]) \in Nat
    BY <2>7, LenProperties
  <2>13. Len(Joined(t, k + 1)) = Len(Joined(t, k)) + Len(s[n + k + 1]) BY <2>9, <2>10, Zenon
  <2>14. Joined(s, n + (k + 1)) = Joined(s, n + k + 1) BY <2>1
  <2>15. Len(Joined(s, n + k + 1)) = Len(Joined(s, n)) + Len(Joined(t, k + 1))
    <3> DEFINE a == Len(Joined(s, n))
               b == Len(Joined(t, k))
               c == Len(s[n + k + 1])
               d == Len(Joined(s, n + k + 1))
               e == Len(Joined(s, n + k))
               f == Len(Joined(t, k + 1))
    <3>1. a \in Nat /\ b \in Nat /\ c \in Nat /\ d = e + c /\ f = b + c /\ e = a + b
      BY <2>8, <2>11, <2>12, <2>13
    <3> HIDE DEF a, b, c, d, e, f
    <3>2. d = a + f BY <3>1
    <3> QED BY <3>2 DEF a, d, f
  <2> QED BY <2>14, <2>15, Zenon
<1>3. \A k \in Nat : k \in S
  <2> HIDE DEF S
  <2> QED BY <1>1, <1>2, NatSetInduction
<1> QED BY <1>3

(* A put or a delete.                                                       *)
OpType == [key: Keys, del: BOOLEAN]

(* A sequence is one of any set that has its elements.                      *)
LEMMA SeqRetyped ==
  ASSUME NEW S, NEW s \in Seq(S), NEW T, \A i \in 1 .. Len(s) : s[i] \in T
  PROVE  s \in Seq(T)
<1>1. Len(s) \in Nat /\ s \in [1 .. Len(s) -> S] BY LenProperties
<1>2. s \in [1 .. Len(s) -> T] BY <1>1
<1>3. Seq(T) = UNION {[1 .. n -> T] : n \in Nat} BY SeqDef
<1> HIDE DEF Seq
<1> QED BY <1>1, <1>2, <1>3, Zenon

(* What a job writes.                                                       *)
LEMMA JobOps ==
  ASSUME NEW j \in Jobs \cup {NoJob} PROVE j.ops \in Seq(OpType)
<1>1. CASE j \in Jobs
  <2>1. j \in [ops: Seq([key: Int, del: BOOLEAN]), sync: BOOLEAN] BY <1>1, JobsTyped
  <2>2. j.ops \in Seq([key: Int, del: BOOLEAN]) BY <2>1
  <2> DEFINE s == j.ops
  <2>3. ASSUME NEW i \in 1 .. Len(s) PROVE s[i] \in OpType
    <3>1. s[i] \in [key: Int, del: BOOLEAN] /\ i \in DOMAIN s BY <2>2, ElementsOf
    <3>2. s[i] \in Range(s) BY <3>1 DEF Range
    <3>3. s[i] \in UNION {Range(k.ops) : k \in Jobs} BY <1>1, <3>2
    <3>4. s[i].key \in Keys BY <3>3, Zenon DEF Keys
    <3> HIDE DEF s
    <3> QED BY <3>1, <3>4 DEF OpType
  <2> HIDE DEF s
  <2>4. s \in Seq(OpType) BY <2>2, <2>3, SeqRetyped DEF s
  <2> QED BY <2>4 DEF s
<1>2. CASE j = NoJob BY <1>2 DEF NoJob
<1> QED BY <1>1, <1>2

(* The batches of the writers in queue q.                                   *)
QueueOps(q, jb) == [i \in 1 .. Len(q) |-> jb[q[i]].ops]

(* How many puts and deletes they have.                                     *)
Queued(q, jb) == Len(Joined(QueueOps(q, jb), Len(q)))

(* Everything a queue holds is a sequence of puts and deletes.              *)
LEMMA QueueOpsTyped ==
  ASSUME NEW q \in Seq(Writers), NEW jb \in [Writers -> Jobs \cup {NoJob}]
  PROVE  /\ Len(q) \in Nat
         /\ \A i \in 1 .. Len(q) : QueueOps(q, jb)[i] = jb[q[i]].ops /\ QueueOps(q, jb)[i] \in Seq(OpType)
         /\ \A n \in 0 .. Len(q) : /\ Joined(QueueOps(q, jb), n) \in Seq(OpType)
                                   /\ Len(Joined(QueueOps(q, jb), n)) \in Nat
<1> DEFINE s == QueueOps(q, jb)
<1>1. Len(q) \in Nat /\ \A i \in 1 .. Len(q) : q[i] \in Writers BY ElementsOf
<1>2. \A i \in 1 .. Len(q) : s[i] = jb[q[i]].ops BY DEF QueueOps
<1>3. \A i \in 1 .. Len(q) : jb[q[i]] \in Jobs \cup {NoJob} BY <1>1
<1> HIDE DEF s
<1>4. \A i \in 1 .. Len(q) : s[i] \in Seq(OpType) BY <1>2, <1>3, JobOps
<1>5. \A n \in 0 .. Len(q) : Joined(s, n) \in Seq(OpType) BY <1>1, <1>4, JoinedIsSeq
<1>6. \A n \in 0 .. Len(q) : Len(Joined(s, n)) \in Nat BY <1>5, LenProperties
<1> QED BY <1>1, <1>2, <1>4, <1>5, <1>6 DEF s

(* The calls: what the writers write, what is left of the bounds, and that  *)
(* the sequence numbers the queue needs are within them.                    *)
CallsOK ==
  /\ job \in [Writers -> Jobs \cup {NoJob}]
  /\ budget \in Budget
  /\ lastSequence \in 0 .. MaxSeq
  /\ lastSequence + Queued(queue, job) <= MaxSeq

(* OpsOf joins the batches of the queue.                                    *)
LEMMA OpsOfJoins ==
  ASSUME QueueOK, NEW n \in 0 .. Len(queue)
  PROVE  OpsOf(n) = Joined(QueueOps(queue, job), n)
<1>1. Len(queue) \in Nat BY DEF QueueOK
<1>2. [i \in 1 .. n |-> job[queue[i]].ops] = [i \in 1 .. n |-> QueueOps(queue, job)[i]]
  BY <1>1 DEF QueueOps
<1> QED BY <1>2, Zenon DEF OpsOf, Joined

(* What is left in the queue when the first n have gone.                    *)
LEMMA QueuedParts ==
  ASSUME NEW q \in Seq(Writers), NEW jb \in [Writers -> Jobs \cup {NoJob}], NEW n \in 0 .. Len(q),
         NEW r \in Seq(Writers), NEW k \in [Writers -> Jobs \cup {NoJob}], Len(r) = Len(q) - n,
         \A i \in 1 .. Len(q) - n : k[r[i]] = jb[q[n + i]]
  PROVE  /\ Queued(q, jb) = Len(Joined(QueueOps(q, jb), n)) + Queued(r, k)
         /\ Len(Joined(QueueOps(q, jb), n)) \in Nat /\ Queued(r, k) \in Nat
<1> DEFINE s == QueueOps(q, jb)
           t == QueueOps(r, k)
<1>1. Len(q) \in Nat /\ \A i \in 1 .. Len(q) : s[i] = jb[q[i]].ops /\ s[i] \in Seq(OpType)
  BY QueueOpsTyped
<1>2. \A i \in 1 .. Len(r) : t[i] = k[r[i]].ops BY QueueOpsTyped
<1>3. \A i \in 1 .. Len(q) - n : t[i] = s[n + i]
  <2> SUFFICES ASSUME NEW i \in 1 .. Len(q) - n PROVE t[i] = s[n + i] OBVIOUS
  <2>1. n + i \in 1 .. Len(q) /\ i \in 1 .. Len(r) BY <1>1
  <2> HIDE DEF s, t
  <2> QED BY <1>1, <1>2, <2>1
<1>4. Len(Joined(s, n)) \in Nat /\ Len(Joined(t, Len(r))) \in Nat
  <2>1. n \in 0 .. Len(q) /\ Len(r) \in 0 .. Len(r) BY <1>1
  <2> QED BY <2>1, QueueOpsTyped
<1> HIDE DEF s, t
<1>5. Len(r) \in 0 .. Len(q) - n /\ n + Len(r) = Len(q) BY <1>1
<1>6. Len(Joined(s, n + Len(r))) = Len(Joined(s, n)) + Len(Joined(t, Len(r)))
  <2>1. \A m \in 0 .. Len(q) - n : Len(Joined(s, n + m)) = Len(Joined(s, n)) + Len(Joined(t, m))
    <3> DEFINE M == Len(q)
    <3>1. M \in Nat /\ n \in 0 .. M /\ AllSeqs(s, M, OpType) BY <1>1 DEF AllSeqs
    <3>2. Behind(t, s, M, n) BY <1>3 DEF Behind
    <3> HIDE DEF M
    <3>3. \A m \in 0 .. M - n : Len(Joined(s, n + m)) = Len(Joined(s, n)) + Len(Joined(t, m))
      BY <3>1, <3>2, JoinedParts
    <3> QED BY <3>3 DEF M
  <2> QED BY <1>5, <2>1, Zenon
<1>7. Len(Joined(s, Len(q))) = Len(Joined(s, n)) + Len(Joined(t, Len(r))) BY <1>5, <1>6
<1> QED BY <1>4, <1>7 DEF Queued, s, t

(* A batch of the queue: finitely many entries, with sequence numbers in    *)
(* bounds.                                                                  *)
LEMMA BatchTyped ==
  ASSUME QueueOK, CallsOK, NEW n \in 0 .. Len(queue)
  PROVE  Contents(Batch(n)) /\ LastSequenceAfter(n) \in 0 .. MaxSeq /\ Len(OpsOf(n)) \in Nat
<1> DEFINE s == OpsOf(n)
           L == Len(s)
<1>0. MaxSeq \in Nat BY LevelDBAssumption
<1>1. queue \in Seq(Writers) /\ job \in [Writers -> Jobs \cup {NoJob}] BY DEF QueueOK, CallsOK
<1>2. s = Joined(QueueOps(queue, job), n) BY OpsOfJoins
<1>3. s \in Seq(OpType) BY <1>1, <1>2, QueueOpsTyped
<1>4. L <= Queued(queue, job) /\ Queued(queue, job) \in Nat /\ L \in Nat
  <2> DEFINE r == SubSeq(queue, n + 1, Len(queue))
  <2>1. Len(queue) \in Nat /\ n + 1 \in Int BY <1>1
  <2>2. \A i \in n + 1 .. Len(queue) : queue[i] \in Writers BY <1>1, <2>1
  <2>3. /\ r \in Seq(Writers)
        /\ Len(r) = IF n + 1 <= Len(queue) THEN Len(queue) - (n + 1) + 1 ELSE 0
        /\ \A i \in 1 .. Len(queue) - (n + 1) + 1 : r[i] = queue[n + 1 + i - 1]
    BY <2>1, <2>2, SubSeqProperties
  <2>4. Len(r) = Len(queue) - n BY <2>1, <2>3
  <2>5. ASSUME NEW i \in 1 .. Len(queue) - n PROVE job[r[i]] = job[queue[n + i]]
    <3>1. i \in 1 .. Len(queue) - (n + 1) + 1 /\ n + 1 + i - 1 = n + i BY <2>1
    <3> QED BY <2>3, <3>1
  <2> HIDE DEF r
  <2>6. /\ Queued(queue, job) = Len(Joined(QueueOps(queue, job), n)) + Queued(r, job)
        /\ Len(Joined(QueueOps(queue, job), n)) \in Nat /\ Queued(r, job) \in Nat
    BY <1>1, <2>3, <2>4, <2>5, QueuedParts
  <2> HIDE DEF s
  <2> QED BY <1>2, <2>6
<1>5. lastSequence \in Nat /\ lastSequence + Queued(queue, job) <= MaxSeq BY <1>0 DEF CallsOK
<1>6. lastSequence + L \in 0 .. MaxSeq BY <1>0, <1>4, <1>5
<1> DEFINE e == [i \in 1 .. L |-> [key |-> s[i].key, seq |-> lastSequence + i, del |-> s[i].del]]
<1>7. DOMAIN s = 1 .. L BY <1>3, ElementsOf
<1>8. Batch(n) = {e[i] : i \in 1 .. L} BY <1>7 DEF Batch
<1>9. ASSUME NEW i \in 1 .. L PROVE e[i] \in Entry
  <2>1. s[i] \in OpType BY <1>3, <1>7, ElementsOf
  <2>2. s[i].key \in Keys /\ s[i].del \in BOOLEAN BY <2>1 DEF OpType
  <2>3. lastSequence + i \in 1 .. MaxSeq BY <1>0, <1>4, <1>5, <1>6
  <2> HIDE DEF s, L
  <2> QED BY <2>2, <2>3 DEF Entry, EntryOf
<1>10. IsFiniteSet(Batch(n))
  <2> DEFINE D == 1 .. L
  <2>1. IsFiniteSet(D) BY <1>4, FS_Interval
  <2>2. Batch(n) = {e[i] : i \in D} BY <1>8
  <2> HIDE DEF e, L, D
  <2> QED BY <2>1, <2>2, FiniteImage
<1>11. LastSequenceAfter(n) = lastSequence + L BY DEF LastSequenceAfter
<1> HIDE DEF e, L
<1>12. Batch(n) \subseteq Entry BY <1>8, <1>9
<1> QED BY <1>4, <1>6, <1>10, <1>11, <1>12 DEF Contents, L

(* What a budget is.                                                         *)
LEMMA BudgetFields ==
  ASSUME NEW b \in Budget
  PROVE  /\ b.jobs \in SUBSET Jobs /\ b.seqs \in 0 .. MaxSeq /\ b.readers \in Nat /\ b.forced \in Nat
         /\ b.faults \in Nat /\ b.crashes \in Nat
BY DEF Budget

(* Spending some of it leaves a budget.                                      *)
LEMMA BudgetSpent ==
  ASSUME budget \in Budget
  PROVE  /\ Fault => budget' \in Budget
         /\ budget.crashes > 0 => [budget EXCEPT !.crashes = @ - 1] \in Budget
         /\ budget.forced > 0 => [budget EXCEPT !.forced = @ - 1] \in Budget
<1>1. /\ budget.forced \in Nat /\ budget.faults \in Nat /\ budget.crashes \in Nat BY BudgetFields
<1>2. \A n \in Nat : [budget EXCEPT !.crashes = n] \in Budget BY DEF Budget
<1>3. \A n \in Nat : [budget EXCEPT !.forced = n] \in Budget BY DEF Budget
<1>4. \A n \in Nat : [budget EXCEPT !.faults = n] \in Budget BY DEF Budget
<1>5. ASSUME Fault PROVE budget' \in Budget
  <2>1. budget.faults > 0 /\ budget' = [budget EXCEPT !.faults = budget.faults - 1] BY <1>5 DEF Fault
  <2>2. budget.faults - 1 \in Nat BY <1>1, <2>1
  <2> QED BY <1>4, <2>1, <2>2
<1>6. ASSUME budget.crashes > 0 PROVE [budget EXCEPT !.crashes = @ - 1] \in Budget
  <2>1. budget.crashes - 1 \in Nat BY <1>1, <1>6
  <2> QED BY <1>2, <2>1
<1>7. ASSUME budget.forced > 0 PROVE [budget EXCEPT !.forced = @ - 1] \in Budget
  <2>1. budget.forced - 1 \in Nat BY <1>1, <1>7
  <2> QED BY <1>3, <2>1
<1> QED BY <1>5, <1>6, <1>7

(* A call joins the queue with a batch there are numbers for.                *)
LEMMA JoinKeepsCalls ==
  ASSUME QueueOK, CallsOK, NEW w \in Writers, NEW j \in budget.jobs, Write(w, j)
  PROVE  CallsOK'
<1>1. /\ queue \in Seq(Writers) /\ job \in [Writers -> Jobs \cup {NoJob}] /\ budget \in Budget
      /\ lastSequence \in 0 .. MaxSeq /\ lastSequence + Queued(queue, job) <= MaxSeq
  BY DEF QueueOK, CallsOK
<1>2. /\ pc[w] = "idle" /\ queue' = Append(queue, w) /\ job' = [job EXCEPT ![w] = j]
      /\ UNCHANGED lastSequence
  BY DEF Write, memory
<1>3. j \in Jobs BY <1>1, BudgetFields
<1>4. budget' \in Budget
  <2>1. CASE j.ops = <<>>
    <3>1. budget.forced > 0 /\ budget' = [budget EXCEPT !.forced = @ - 1] BY <2>1 DEF Write
    <3> QED BY <1>1, <3>1, BudgetSpent
  <2>2. CASE j.ops # <<>>
    <3>1. budget' = budget BY <2>2 DEF Write
    <3> QED BY <1>1, <3>1
  <2> QED BY <2>1, <2>2
<1>5. job' \in [Writers -> Jobs \cup {NoJob}] BY <1>1, <1>2, <1>3
<1> DEFINE L == Len(queue)
           s == QueueOps(queue, job)
           t == QueueOps(queue', job')
<1>6. L \in Nat /\ queue' \in Seq(Writers) /\ Len(queue') = L + 1
  BY <1>1, <1>2
<1>7. \A i \in 1 .. L : t[i] = s[i]
  <2> SUFFICES ASSUME NEW i \in 1 .. L PROVE t[i] = s[i] OBVIOUS
  <2>1. queue'[i] = queue[i] /\ queue[i] \in Writers BY <1>1, <1>2
  <2>2. queue[i] # w BY <1>2 DEF QueueOK
  <2>3. job'[queue[i]] = job[queue[i]] BY <1>1, <1>2, <2>1, <2>2
  <2>4. i \in 1 .. Len(queue') /\ i \in 1 .. Len(queue) BY <1>6
  <2> QED BY <2>1, <2>3, <2>4 DEF QueueOps
<1>8. t[L + 1] = j.ops
  <2>1. queue'[L + 1] = w /\ job'[w] = j BY <1>1, <1>2
  <2>2. L + 1 \in 1 .. Len(queue') BY <1>6
  <2> QED BY <2>1, <2>2 DEF QueueOps
<1>9. /\ \A i \in 1 .. L + 1 : t[i] \in Seq(OpType)
      /\ Joined(t, L) \in Seq(OpType) /\ Queued(queue', job') = Len(Joined(t, L + 1))
  <2>1. L \in 0 .. Len(queue') BY <1>6
  <2>2. /\ \A i \in 1 .. Len(queue') : t[i] \in Seq(OpType)
        /\ \A n \in 0 .. Len(queue') : Joined(t, n) \in Seq(OpType)
    BY <1>5, <1>6, QueueOpsTyped
  <2> QED BY <1>6, <2>1, <2>2 DEF Queued
<1>10. Joined(t, L) = Joined(s, L)
  <2> HIDE DEF t, s, L
  <2>1. [i \in 1 .. L |-> t[i]] = [i \in 1 .. L |-> s[i]] BY <1>7
  <2> QED BY <2>1, Zenon DEF Joined
<1>11. Queued(queue, job) = Len(Joined(s, L)) /\ Queued(queue, job) \in Nat
  <2>1. L \in 0 .. Len(queue) BY <1>6
  <2>2. \A n \in 0 .. Len(queue) : Len(Joined(s, n)) \in Nat BY <1>1, QueueOpsTyped
  <2> QED BY <2>1, <2>2 DEF Queued
<1>o. LastSequenceAfter(Len(queue)) = lastSequence + Queued(queue, job)
  <2>1. L \in 0 .. Len(queue) BY <1>6
  <2>2. OpsOf(Len(queue)) = Joined(QueueOps(queue, job), Len(queue)) BY <2>1, OpsOfJoins
  <2> QED BY <2>2 DEF LastSequenceAfter, Queued
<1> HIDE DEF t, s, L
<1>12. Joined(t, L + 1) = Joined(t, L) \o t[L + 1] BY <1>6, <1>9, JoinedStep
<1>13. /\ Queued(queue', job') = Queued(queue, job) + Len(j.ops) /\ Len(j.ops) \in Nat
  <2>1. j.ops \in Seq(OpType) BY <1>3, JobOps
  <2>2. Len(Joined(t, L) \o j.ops) = Len(Joined(t, L)) + Len(j.ops) /\ Len(j.ops) \in Nat
    BY <1>9, <2>1, CatLength
  <2> QED BY <1>8, <1>9, <1>10, <1>11, <1>12, <2>2
<1>14. lastSequence + Queued(queue', job') <= MaxSeq
  <2>1. CASE j.ops = <<>>
    <3>1. Len(j.ops) = 0 BY <2>1
    <3> QED BY <1>1, <1>11, <1>13, <3>1
  <2>2. CASE j.ops # <<>>
    <3>1. LastSequenceAfter(Len(queue)) + Len(j.ops) <= budget.seqs BY <2>2 DEF Write
    <3>2. budget.seqs \in 0 .. MaxSeq /\ MaxSeq \in Nat BY <1>1, BudgetFields, LevelDBAssumption
    <3> DEFINE x == Len(j.ops)
               y == Queued(queue, job)
    <3>3. lastSequence + y + x <= budget.seqs /\ Queued(queue', job') = y + x /\ x \in Nat /\ y \in Nat
      BY <1>11, <1>13, <1>o, <3>1
    <3> HIDE DEF x, y
    <3> QED BY <1>1, <3>2, <3>3
  <2> QED BY <2>1, <2>2
<1> QED BY <1>1, <1>2, <1>4, <1>5, <1>14 DEF CallsOK

(* Numbers s of at most m are used and x + y more are needed; x are used.    *)
LEMMA NumbersFit ==
  ASSUME NEW m \in Nat, NEW s \in 0 .. m, NEW x \in Nat, NEW y \in Nat, s + (x + y) <= m,
         NEW t, t = s \/ t = s + x
  PROVE  t \in 0 .. m /\ t + y <= m
OBVIOUS

(* A group leaves the queue, with or without the numbers of its batches.     *)
LEMMA PopKeepsCalls ==
  ASSUME QueueOK, CallsOK, NEW n \in 1 .. Len(queue), NEW p, NEW fl, PopGroup(p, n, fl),
         lastSequence' \in {lastSequence, LastSequenceAfter(n)}, budget' \in Budget
  PROVE  CallsOK'
<1>1. /\ queue \in Seq(Writers) /\ job \in [Writers -> Jobs \cup {NoJob}]
      /\ lastSequence \in 0 .. MaxSeq /\ lastSequence + Queued(queue, job) <= MaxSeq
      /\ \A i, j \in 1 .. Len(queue) : queue[i] = queue[j] => i = j
  BY DEF QueueOK, CallsOK
<1> DEFINE L == Len(queue)
           done == {queue[i] : i \in 1 .. n}
           rest == SubSeq(queue, n + 1, L)
<1>2. /\ rest \in Seq(Writers) /\ Len(rest) = L - n
      /\ \A i \in 1 .. L - n : rest[i] = queue[n + i] /\ n + i \in 2 .. L
  BY RestOfQueue
<1>3. /\ queue' = rest
      /\ job' = [w \in Writers |-> IF w \in done THEN NoJob ELSE job[w]]
  BY DEF PopGroup
<1>4. L \in Nat /\ n \in 0 .. L /\ n \in 1 .. L /\ \A i \in 1 .. L : queue[i] \in Writers BY <1>1
<1>5. \A i \in 1 .. L - n : queue[n + i] \notin done /\ queue[n + i] \in Writers
  BY <1>1, <1>4
<1> HIDE DEF rest, done, L
<1>6. job' \in [Writers -> Jobs \cup {NoJob}] BY <1>1, <1>3
<1>7. \A i \in 1 .. L - n : job'[rest[i]] = job[queue[n + i]] BY <1>2, <1>3, <1>5
<1> DEFINE x == Len(Joined(QueueOps(queue, job), n))
           y == Queued(rest, job')
<1>8. Queued(queue, job) = x + y /\ x \in Nat /\ y \in Nat
  <2>1. Len(rest) = Len(queue) - n BY <1>2 DEF L
  <2>2. \A i \in 1 .. Len(queue) - n : job'[rest[i]] = job[queue[n + i]] BY <1>7 DEF L
  <2>3. n \in 0 .. Len(queue) BY <1>4 DEF L
  <2>4. QueueOK /\ queue \in Seq(Writers) /\ rest \in Seq(Writers) BY <1>1, <1>2
  <2> DEFINE k == job'
             q == queue
             m == Len(queue)
  <2>5. /\ q \in Seq(Writers) /\ job \in [Writers -> Jobs \cup {NoJob}] /\ n \in 0 .. Len(q)
        /\ rest \in Seq(Writers) /\ k \in [Writers -> Jobs \cup {NoJob}] /\ Len(rest) = Len(q) - n
        /\ \A i \in 1 .. Len(q) - n : k[rest[i]] = job[q[n + i]]
    BY <1>1, <1>6, <2>1, <2>2, <2>3, <2>4
  <2> HIDE DEF k, q
  <2>6. /\ Queued(q, job) = Len(Joined(QueueOps(q, job), n)) + Queued(rest, k)
        /\ Len(Joined(QueueOps(q, job), n)) \in Nat /\ Queued(rest, k) \in Nat
    BY <2>5, QueuedParts
  <2> QED BY <2>6 DEF k, q
<1>9. LastSequenceAfter(n) = lastSequence + x
  <2>1. n \in 0 .. Len(queue) BY <1>4 DEF L
  <2>2. OpsOf(n) = Joined(QueueOps(queue, job), n) BY <2>1, OpsOfJoins
  <2> QED BY <2>2 DEF LastSequenceAfter
<1>10. Queued(queue', job') = y BY <1>3
<1> HIDE DEF x, y
<1>11. MaxSeq \in Nat BY LevelDBAssumption
<1>12. lastSequence' \in 0 .. MaxSeq /\ lastSequence' + Queued(queue', job') <= MaxSeq
  <2>1. lastSequence + (x + y) <= MaxSeq /\ lastSequence \in 0 .. MaxSeq BY <1>1, <1>8
  <2>2. lastSequence' = lastSequence \/ lastSequence' = lastSequence + x BY <1>9
  <2>4. x \in Nat /\ y \in Nat BY <1>8
  <2>3. lastSequence' \in 0 .. MaxSeq /\ lastSequence' + y <= MaxSeq
    BY <1>11, <2>1, <2>2, <2>4, NumbersFit
  <2> QED BY <1>10, <2>3
<1> QED BY <1>6, <1>12 DEF CallsOK

(* Writers that do not come or go.                                           *)
LEMMA SameCalls ==
  ASSUME CallsOK, UNCHANGED <<queue, job, lastSequence>>, budget' \in Budget
  PROVE  CallsOK'
BY DEF CallsOK

(* Every step of a writer keeps CallsOK,                                     *)
LEMMA WriterKeepsCalls ==
  ASSUME QueueOK, CallsOK, NEW w \in Writers, WriterStep(w)
  PROVE  CallsOK'
<1>b. budget \in Budget /\ (Fault => budget' \in Budget) BY BudgetSpent DEF CallsOK
<1>q. Len(queue) \in Nat BY DEF QueueOK
<1>1. ASSUME NEW j \in budget.jobs, Write(w, j) PROVE CallsOK' BY <1>1, JoinKeepsCalls
<1>2. CASE MakeRoomFails(w)
  <2>1. pc[w] = "ready" /\ PopGroup(pc, 1, FALSE) /\ UNCHANGED lastSequence
    BY <1>2 DEF MakeRoomFails, memory
  <2>2. budget' \in Budget BY <1>2, <1>b DEF MakeRoomFails
  <2>3. 1 \in 1 .. Len(queue) BY <1>q, <2>1, HeadOfQueue
  <2> QED BY <2>1, <2>2, <2>3, PopKeepsCalls
<1>3. CASE MakeRoomWaits(w)
  BY <1>3, <1>b, SameCalls DEF MakeRoomWaits, memory
<1>4. CASE SwitchMemTable(w)
  <2>1. pc[w] = "ready" /\ UNCHANGED <<lastSequence, budget>> BY <1>4 DEF SwitchMemTable
  <2>2. PopGroup(pc, 1, TRUE) \/ UNCHANGED <<queue, job>> BY <1>4 DEF SwitchMemTable, calls
  <2>3. 1 \in 1 .. Len(queue) BY <1>q, <2>1, HeadOfQueue
  <2>4. budget' \in Budget BY <1>b, <2>1
  <2>5. CASE PopGroup(pc, 1, TRUE) BY <2>1, <2>3, <2>4, <2>5, PopKeepsCalls
  <2>6. CASE UNCHANGED <<queue, job>> BY <2>1, <2>4, <2>6, SameCalls
  <2> QED BY <2>2, <2>5, <2>6
<1>5. CASE AddRecord(w)
  BY <1>5, <1>b, SameCalls DEF AddRecord, memory
<1>6. CASE AddRecordFails(w)
  <2>1. budget' \in Budget BY <1>6, <1>b DEF AddRecordFails
  <2>2. PICK n \in BuildBatchGroup : lastSequence' = LastSequenceAfter(n) /\ PopGroup(pc, n, FALSE)
    BY <1>6 DEF AddRecordFails
  <2>3. n \in 1 .. Len(queue) BY DEF BuildBatchGroup
  <2> QED BY <2>1, <2>2, <2>3, PopKeepsCalls
<1>7. CASE SyncFails(w)
  <2> DEFINE p == SignalAll(pc, TRUE)
  <2>1. pc[w] = "logged" /\ lastSequence' = LastSequenceAfter(group) /\ PopGroup(p, group, FALSE)
    BY <1>7 DEF SyncFails
  <2>2. budget' \in Budget BY <1>7, <1>b DEF SyncFails
  <2>3. group \in 1 .. Len(queue) BY <1>q, <2>1 DEF QueueOK
  <2> HIDE DEF p
  <2> QED BY <2>1, <2>2, <2>3, PopKeepsCalls
<1>8. CASE SyncAndInsert(w)
  <2> DEFINE fl == imm # <<>> /\ ~bgError
  <2>1. pc[w] = "logged" /\ lastSequence' = LastSequenceAfter(group) /\ PopGroup(pc, group, fl)
        /\ UNCHANGED budget
    BY <1>8 DEF SyncAndInsert
  <2>2. budget' \in Budget BY <1>b, <2>1
  <2>3. group \in 1 .. Len(queue) BY <1>q, <2>1 DEF QueueOK
  <2> HIDE DEF fl
  <2> QED BY <2>1, <2>2, <2>3, PopKeepsCalls
<1> QED BY <1>1, <1>2, <1>3, <1>4, <1>5, <1>6, <1>7, <1>8 DEF WriterStep

(* An empty queue holds nothing.                                             *)
LEMMA NothingQueued == \A jb : Queued(<<>>, jb) = 0
<1>1. \A jb : QueueOps(<<>>, jb) = [i \in 1 .. 0 |-> jb[<<>>[i]].ops] BY DEF QueueOps
<1>2. \A jb : Joined(QueueOps(<<>>, jb), 0) = <<>>
  <2> SUFFICES ASSUME NEW jb PROVE Joined(QueueOps(<<>>, jb), 0) = <<>> OBVIOUS
  <2> DEFINE s == QueueOps(<<>>, jb)
  <2> HIDE DEF s
  <2>1. FlattenSeq([i \in 1 .. 0 |-> s[i]]) = <<>>
    <3>1. 0 \in Nat /\ \A i \in 1 .. 0 + 1 : [k \in 1 .. 1 |-> <<>>][i] \in Seq({}) OBVIOUS
    <3>2. Joined([k \in 1 .. 1 |-> <<>>], 0) = <<>> BY <3>1, JoinedStep
    <3>3. [i \in 1 .. 0 |-> s[i]] = [i \in 1 .. 0 |-> [k \in 1 .. 1 |-> <<>>][i]] OBVIOUS
    <3> QED BY <3>2, <3>3, Zenon DEF Joined
  <2> QED BY <2>1, Zenon DEF Joined, s
<1>3. Len(<<>>) = 0 OBVIOUS
<1> QED BY <1>2, <1>3, Zenon DEF Queued

(* ... and so does every step of the database, if recovery finds numbers in  *)
(* bounds.                                                                   *)
LEMMA CallsKept ==
  ASSUME QueueOK, NotOpenIsQuiet, CallsOK, Next, Open => Recovered.seq \in 0 .. MaxSeq
  PROVE  CallsOK'
<1>b. budget \in Budget /\ (Fault => budget' \in Budget) BY BudgetSpent DEF CallsOK
<1>1. ASSUME NEW w \in Writers, WriterStep(w) PROVE CallsOK' BY <1>1, WriterKeepsCalls
<1>2. CASE ReaderStep
  <2>1. UNCHANGED <<queue, job, lastSequence, budget>> BY <1>2, ReaderKeepsCalls DEF calls, memory
  <2> QED BY <1>b, <2>1, SameCalls
<1>3. CASE BackgroundStep
  <2>1. UNCHANGED <<queue, job, lastSequence>> /\ (Fault \/ UNCHANGED budget)
    BY <1>3 DEF BackgroundStep, WriteLevel0Table, FlushInstalled, FlushFails, BackgroundCallStops,
       StartCompaction, MoveFile, FinishCompactionOutputFile, InstallCompactionResults,
       CompactionInstalled, CompactionFails, calls, memory
  <2>2. budget' \in Budget BY <1>b, <2>1
  <2> QED BY <2>1, <2>2, SameCalls
<1>e. Queued(<<>>, job') = 0 BY NothingQueued
<1>4. CASE Crash
  <2>1. /\ queue' = <<>> /\ lastSequence' = 0 /\ job' = [w \in Writers |-> NoJob]
        /\ budget.crashes > 0 /\ budget' = [budget EXCEPT !.crashes = @ - 1]
    BY <1>4 DEF Crash
  <2>2. budget' \in Budget BY <1>b, <2>1, BudgetSpent
  <2>3. MaxSeq \in Nat BY LevelDBAssumption
  <2>4. job' \in [Writers -> Jobs \cup {NoJob}] BY <2>1
  <2>5. Queued(queue', job') = 0 BY <1>e, <2>1
  <2> QED BY <2>1, <2>2, <2>3, <2>4, <2>5 DEF CallsOK
<1>5. CASE Open
  <2>1. lastSequence' = Recovered.seq /\ UNCHANGED <<queue, job, budget>> /\ up = "down"
    BY <1>5 DEF Open, calls
  <2>2. queue = <<>> BY <2>1 DEF NotOpenIsQuiet
  <2>3. MaxSeq \in Nat BY LevelDBAssumption
  <2>4. Queued(queue', job') = 0 BY <1>e, <2>1, <2>2
  <2>5. job' \in [Writers -> Jobs \cup {NoJob}] /\ budget' \in Budget BY <2>1 DEF CallsOK
  <2>6. lastSequence' \in 0 .. MaxSeq BY <1>5, <2>1
  <2>8. \A m \in Nat : \A x \in 0 .. m : x + 0 <= m OBVIOUS
  <2>7. lastSequence' + 0 <= MaxSeq BY <2>3, <2>6, <2>8, Zenon
  <2> QED BY <2>4, <2>5, <2>6, <2>7 DEF CallsOK
<1>6. CASE OpenInstalled
  <2>1. UNCHANGED <<queue, job, lastSequence, budget>> BY <1>6 DEF OpenInstalled, calls
  <2> QED BY <1>b, <2>1, SameCalls
<1> QED BY <1>1, <1>2, <1>3, <1>4, <1>5, <1>6 DEF Next
=============================================================================
