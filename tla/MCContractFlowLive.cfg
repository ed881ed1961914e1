\* One contract and two alterations, under fairness.
CONSTANTS
  MaxKey = 6
  Costs = {1}
SPECIFICATION FairSpec
PROPERTY AddsSettle
