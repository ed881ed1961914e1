\* Two contracts with two alterations between them, or one contract with six.
CONSTANTS
  MaxKey = 10
  Costs = {1}
SPECIFICATION Spec
INVARIANTS
  TypeOK
  ReferencesResolve
  ListsWellFormed
  AckedNeverUndone
  WaitedAddsKept
