\* One contract, two alterations, two appearances of the review screen.
CONSTANTS
  MaxKey = 6
  Costs = {1}
  MaxRounds = 2
SPECIFICATION SpecAll
INVARIANT TappedRowIsTheShownRow
