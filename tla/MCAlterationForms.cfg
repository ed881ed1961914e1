\* Two alterations of a contract, one field typed into on each visit.
CONSTANTS
  Offers <- OneOffer
  Texts <- MCTexts
  MaxEntries = 2
  MaxTouched = 1
SPECIFICATION Spec
INVARIANTS
  FormsTypeOK
  TotalsAgree
  AddFormExact
PROPERTIES
  FormsKeepTheLedger
  EditStoresWhatIsShown
