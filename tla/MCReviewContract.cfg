\* One contract with two alterations and two appearances of the review screen,
\* or two contracts with an alteration each (push ids 1-4, 5, 6-9 and 10) and
\* three appearances: one of each contract's review, and one more of either,
\* after an edit. The bounds are in SpecSmall.
CONSTANTS
  MaxKey = 10
  Costs = {1, 2}
  MaxRounds = 3
SPECIFICATION SpecSmall
INVARIANTS
  ReviewTypeOK
  ReferencesResolve
  QuietReviewIsTheContract
  RowsOfThisContract
