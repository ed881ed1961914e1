----------------------------- MODULE MCLevelDB -----------------------------
(***************************************************************************)
(* Two keys and three levels.  Every budget lets a few of the difficulties  *)
(* happen together: many writes, crashes, failing files, forced flushes,    *)
(* readers.                                                                 *)
(***************************************************************************)
EXTENDS LevelDB

Put(k) == [key |-> k, del |-> FALSE]
Del(k) == [key |-> k, del |-> TRUE]

PutOne == [ops |-> <<Put(1)>>, sync |-> FALSE]
PutSync == [ops |-> <<Put(1)>>, sync |-> TRUE]
PutTwo == [ops |-> <<Put(2)>>, sync |-> FALSE]
PutBoth == [ops |-> <<Put(1), Put(2)>>, sync |-> FALSE]
DelOne == [ops |-> <<Del(1)>>, sync |-> TRUE]
Force == [ops |-> <<>>, sync |-> FALSE]

MCJobs == {PutOne, PutSync, PutTwo, PutBoth, DelOne, Force}

BudgetOf(jobs, seqs, readers, forced, faults, crashes) ==
  [jobs |-> jobs, seqs |-> seqs, readers |-> readers, forced |-> forced, faults |-> faults,
   crashes |-> crashes]

MCBudgets == {BudgetOf({PutOne, PutBoth, DelOne}, 4, 0, 0, 0, 1),
              BudgetOf({PutOne, PutBoth, Force}, 4, 0, 1, 0, 0),
              BudgetOf({PutOne, DelOne}, 3, 1, 0, 0, 0),
              BudgetOf({PutOne, DelOne}, 3, 0, 0, 0, 2),
              BudgetOf({PutOne, PutBoth, DelOne, Force}, 2, 2, 1, 0, 0),
              BudgetOf({PutSync, Force}, 3, 0, 1, 1, 1)}
HopBudgets == {BudgetOf({PutOne, Force}, 2, 1, 1, 0, 0)}

Symmetry == Permutations(Writers)
=============================================================================
