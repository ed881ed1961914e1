\* One contract and two alterations, the second before the first is answered.
CONSTANTS
  MaxKey = 6
  Costs = {1}
SPECIFICATION Spec
INVARIANT AddedAlterationKept
