--------------------------- MODULE ContractLedger ---------------------------
(***************************************************************************)
(* What the two alteration forms promise of a contract, whatever the user  *)
(* types and presses: entries are added at the end, one entry is amended   *)
(* at a time and stays the offer it was, every entry that is written       *)
(* carries the total its own prices give, and the rest is left alone.      *)
(***************************************************************************)
EXTENDS Integers, Sequences

VARIABLE entries

\* AlterationStruct.getTotalCost
getTotalCost(a) == a.actualCost * a.units + a.secondaryCost

Agrees(a) == a.totalCost = getTotalCost(a)

SameOffer(a, b) == a.minCost = b.minCost /\ a.maxCost = b.maxCost

LedgerInit == entries = <<>>

Enter ==
  /\ Len(entries') = Len(entries) + 1
  /\ \A i \in DOMAIN entries : entries'[i] = entries[i]
  /\ Agrees(entries'[Len(entries) + 1])

Amend ==
  /\ Len(entries') = Len(entries)
  /\ \E i \in DOMAIN entries :
       /\ \A j \in DOMAIN entries \ {i} : entries'[j] = entries[j]
       /\ SameOffer(entries'[i], entries[i])
       /\ Agrees(entries'[i])

\* Another contract is begun, with no entries.
Begin == entries' = <<>>

LedgerSpec == LedgerInit /\ [][Enter \/ Amend \/ Begin]_entries
=============================================================================
