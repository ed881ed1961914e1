--------------------------- MODULE MCContractFlow ---------------------------
(* Small instances of ContractFlow for TLC.                                *)
EXTENDS ContractFlow
=============================================================================
