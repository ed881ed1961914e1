\* One alteration, one field typed into on each visit.
CONSTANTS
  Offers <- OneOffer
  Texts <- MCTexts
  MaxEntries = 1
  MaxTouched = 1
SPECIFICATION Spec
INVARIANT UneditedFieldKept
