-------------------------- MODULE MCReviewContract --------------------------
(* Small instances of ReviewContract for TLC.                              *)
EXTENDS ReviewContract

(***************************************************************************)
(* Bounds of run review. Either the push ids of one contract and two       *)
(* alterations are used, and the review screen appears twice; or no        *)
(* contract is given a second alteration, all cost 1 and no PDF is made,   *)
(* and two contracts are reviewed, with MaxRounds appearances.             *)
(***************************************************************************)
OneContract == nextKey <= 7 /\ rounds <= 2

OneAlterationEach ==
  /\ printed = <<>>
  /\ Len(current.alterations) <= 3
  /\ \A i \in DOMAIN puts : puts[i].node.cost <= 1
  /\ \A k \in Keys : server[k].cost <= 1 /\ Len(server[k].list) <= 2

SpecSmall ==
  InitAll /\ [][NextAll /\ (OneContract \/ OneAlterationEach)']_allVars
=============================================================================
