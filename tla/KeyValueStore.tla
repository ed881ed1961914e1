--------------------------- MODULE KeyValueStore ---------------------------
(***************************************************************************)
(* What a LevelDB promises its caller: a map that changes only when writes  *)
(* take effect, newest last, and that a crash may set back, but never       *)
(* behind a write acknowledged with sync.                                   *)
(***************************************************************************)
EXTENDS Integers

CONSTANT Key

VARIABLES
  view,       \* what a read of each key returns: {} or the entry
  history,    \* the entries in effect
  promised    \* the entries acknowledged with sync

storeVars == <<view, history, promised>>

(* The newest entry of a key, unless it is a deletion.                     *)
Latest(S, k) ==
  {e \in S : e.key = k /\ ~e.del /\ \A d \in S : d.key = k => d.seq <= e.seq}

View(S) == [k \in Key |-> Latest(S, k)]

StoreInit == history = {} /\ promised = {} /\ view = View({})

(* A group of writes takes effect: all of them newer than what was there.   *)
Commit ==
  /\ history \subseteq history' /\ history # history'
  /\ \A e \in history' \ history, d \in history : d.seq < e.seq
  /\ promised \subseteq promised' /\ promised' \subseteq promised \cup (history' \ history)
  /\ view' = View(history')

(* A crash drops writes, and may bring back one that was reported as failed. *)
Recover ==
  /\ history # history'
  /\ promised \subseteq history'
  /\ promised' = promised
  /\ view' = View(history')

StoreNext == Commit \/ Recover

StoreSpec == StoreInit /\ [][StoreNext]_storeVars
=============================================================================
