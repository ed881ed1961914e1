------------------------- MODULE MCAlterationForms -------------------------
(* The forms over an offer of the app's own catalogue, with a whole number,  *)
(* a number with a half dollar and a text that is none.                      *)
EXTENDS AlterationForms, Catalogue

InSections(S) ==
  UNION {{alterationSections[s][r] : r \in DOMAIN alterationSections[s]} :
           s \in S}

WholeCatalogue == InSections(DOMAIN alterationSections)
OneOffer == {alterationSections[2][7]}

MCTexts == {[form |-> "none", cents |-> 0], [form |-> "whole", cents |-> 200],
            [form |-> "point", cents |-> 4550]}

\* What AddFormExact says of the offer under test holds for each alteration of
\* the app's catalogue: shown in whole dollars, its prices read back as they are.
ASSUME CatalogueIsExact ==
  \A o \in WholeCatalogue :
    /\ o.minCost <= o.actualCost /\ o.actualCost <= o.maxCost
    /\ \A f \in Field : ValueIn(f, populateFields(Fresh(o))[f]) = o[f]
=============================================================================
