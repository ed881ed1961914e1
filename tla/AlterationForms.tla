-------------------------- MODULE AlterationForms --------------------------
(***************************************************************************)
(* AddAlterationVC and EditAlterationVC: three text fields, a draft that   *)
(* is only brought up to date by "Calculate", an alert that asks before    *)
(* anything is written, and the alterations of the contract as the review  *)
(* screen lists them. Amounts of money are in cents.                       *)
(***************************************************************************)
EXTENDS Integers, Sequences, FiniteSets

CONSTANTS Offers,       \* the catalogue's alterations
          Texts,        \* what may be typed into a field
          MaxEntries,   \* bound: alterations of one contract
          MaxTouched    \* bound: fields typed into on one visit to a form

Field == {"actualCost", "units", "secondaryCost"}

Offer == [minCost : Nat, maxCost : Nat, actualCost : Nat, units : Nat,
          secondaryCost : Nat]

Alteration == [minCost : Nat, maxCost : Nat, actualCost : Nat, units : Nat,
               secondaryCost : Nat, totalCost : Nat]

\* A text is not a number ("" or "1.2.3"), or it is one without or with a
\* decimal point.
Text == [form : {"none", "whole", "point"}, cents : Nat]

ASSUME OffersAssumption == Offers \subseteq Offer
ASSUME TextsAssumption ==
  /\ Texts \subseteq Text
  /\ \A t \in Texts : t.form = "whole" => t.cents % 100 = 0
ASSUME BoundsAssumption == MaxEntries \in Nat /\ MaxTouched \in Nat

VARIABLES
  screen,             \* "list" stands for the screens that open a form
  draft,              \* myAlterationStruct
  fields,             \* the three text fields
  costWasCalculated,
  alert,              \* "none", "calculateFirst" or "confirm"
  entries,            \* the contract's alterations, in the order of its array
  row,                \* the entry under edit
  touched             \* history: the fields the user typed into

formVars == <<draft, fields, costWasCalculated, alert, row, touched>>
vars == <<screen, formVars, entries>>

Ledger == INSTANCE ContractLedger WITH entries <- entries

-----------------------------------------------------------------------------
(* Text to number and back.                                                *)

PriceGuess == 314         \* Float(text) ?? 3.14
UnitsGuess == 314         \* Int(text) ?? 314

PriceIn(t) == IF t.form = "none" THEN PriceGuess ELSE t.cents
UnitsIn(t) == IF t.form = "whole" THEN t.cents \div 100 ELSE UnitsGuess

\* The text is a number of the field's type: the forced unwrap succeeds.
Readable(f, t) == IF f = "units" THEN t.form = "whole" ELSE t.form # "none"

ValueIn(f, t) == IF f = "units" THEN UnitsIn(t) ELSE PriceIn(t)

\* "%.0f" rounds to whole dollars, a half to the even one.
Dollars(cents) ==
  LET q == cents \div 100
      r == cents % 100
  IN  IF r > 50 \/ (r = 50 /\ q % 2 = 1) THEN q + 1 ELSE q

WholeText(n) == [form |-> "whole", cents |-> 100 * n]

populateFields(a) ==
  [f \in Field |-> WholeText(IF f = "units" THEN a.units ELSE Dollars(a[f]))]

\* A mutant of calculateCost: the total is taken before the prices change.
calculateCostEarly(a, fs) ==
  [a EXCEPT !.actualCost = PriceIn(fs["actualCost"]),
            !.units = UnitsIn(fs["units"]),
            !.secondaryCost = PriceIn(fs["secondaryCost"]),
            !.totalCost = Ledger!getTotalCost(a)]

calculateCost(a, fs) ==
  LET now == [actualCost    |-> PriceIn(fs["actualCost"]),
              units         |-> UnitsIn(fs["units"]),
              secondaryCost |-> PriceIn(fs["secondaryCost"])]
  IN  [a EXCEPT !.actualCost = now.actualCost, !.units = now.units,
                !.secondaryCost = now.secondaryCost,
                !.totalCost = Ledger!getTotalCost(now)]

\* AlterationStruct.init
Fresh(o) ==
  [minCost |-> o.minCost, maxCost |-> o.maxCost, actualCost |-> o.actualCost,
   units |-> o.units, secondaryCost |-> o.secondaryCost, totalCost |-> 0]

NoDraft == [minCost |-> 0, maxCost |-> 0, actualCost |-> 0, units |-> 0,
            secondaryCost |-> 0, totalCost |-> 0]
NoFields == [f \in Field |-> [form |-> "none", cents |-> 0]]

-----------------------------------------------------------------------------
\* A mutant of Open: the fields are left as the storyboard has them.
OpenUnpopulated(s, a, r) ==
  /\ screen = "list"
  /\ screen' = s
  /\ draft' = a
  /\ costWasCalculated' = FALSE
  /\ alert' = "none"
  /\ row' = r
  /\ touched' = {}
  /\ UNCHANGED <<fields, entries>>

Open(s, a, r) ==
  /\ screen = "list"
  /\ screen' = s
  /\ draft' = a
  /\ fields' = populateFields(a)
  /\ costWasCalculated' = FALSE
  /\ alert' = "none"
  /\ row' = r
  /\ touched' = {}
  /\ UNCHANGED entries

\* A mutant of Close: the row is kept.
CloseKeepsRow ==
  /\ screen' = "list"
  /\ draft' = NoDraft
  /\ fields' = NoFields
  /\ costWasCalculated' = FALSE
  /\ alert' = "none"
  /\ row' = row
  /\ touched' = {}

\* The form is popped; its controller is gone.
Close ==
  /\ screen' = "list"
  /\ draft' = NoDraft
  /\ fields' = NoFields
  /\ costWasCalculated' = FALSE
  /\ alert' = "none"
  /\ row' = 0
  /\ touched' = {}

Init ==
  /\ screen = "list"
  /\ draft = NoDraft
  /\ fields = NoFields
  /\ costWasCalculated = FALSE
  /\ alert = "none"
  /\ entries = <<>>
  /\ row = 0
  /\ touched = {}

OnForm == screen # "list" /\ alert = "none"

SelectOffer(o) == Len(entries) < MaxEntries /\ Open("add", Fresh(o), 0)

SelectEntry(i) == Open("edit", entries[i], i)

TypeInto(f, t) ==
  /\ OnForm
  /\ fields' = [fields EXCEPT ![f] = t]
  /\ touched' = touched \cup {f}
  /\ Cardinality(touched') <= MaxTouched
  /\ UNCHANGED <<screen, draft, costWasCalculated, alert, entries, row>>

\* "Calculate": costWasCalculated is set here and never cleared.
updateTotalAction ==
  /\ OnForm
  /\ costWasCalculated' = TRUE
  /\ draft' = calculateCost(draft, fields)
  /\ UNCHANGED <<screen, fields, alert, entries, row, touched>>

\* A mutant of addToContractAction: it does not ask for a calculated total.
addToContractUnguarded ==
  /\ OnForm
  /\ alert' = "confirm"
  /\ UNCHANGED <<screen, draft, fields, costWasCalculated, entries, row, touched>>

addToContractAction ==
  /\ OnForm
  /\ alert' = IF costWasCalculated THEN "confirm" ELSE "calculateFirst"
  /\ UNCHANGED <<screen, draft, fields, costWasCalculated, entries, row, touched>>

\* "Okay" and "Cancel" do nothing.
DismissAlert ==
  /\ alert # "none"
  /\ alert' = "none"
  /\ UNCHANGED <<screen, draft, fields, costWasCalculated, entries, row, touched>>

\* "Add": the draft is written as it is.
ConfirmAdd ==
  /\ screen = "add" /\ alert = "confirm"
  /\ entries' = Append(entries, draft)
  /\ Close

\* A mutant of ConfirmUpdate: the forced unwraps are gone.
ConfirmUpdateGuessing ==
  /\ screen = "edit" /\ alert = "confirm"
  /\ entries' = [entries EXCEPT ![row] = calculateCost(draft, fields)]
  /\ Close

\* "Update": the draft is brought up to date first. A field that does not
\* hold a number ends the process before anything is written, and the app
\* starts again without a contract.
ConfirmUpdate ==
  /\ screen = "edit" /\ alert = "confirm"
  /\ entries' = IF \A f \in Field : Readable(f, fields[f])
                  THEN [entries EXCEPT ![row] = calculateCost(draft, fields)]
                  ELSE <<>>
  /\ Close

BackFromForm == OnForm /\ Close /\ UNCHANGED entries

\* A contract is created, or the process ends and the app starts again.
NewContract ==
  /\ screen = "list" /\ entries # <<>>
  /\ entries' = <<>>
  /\ UNCHANGED <<screen, formVars>>

Ended == screen # "list" /\ entries' = <<>> /\ Close

Next ==
  \/ \E o \in Offers : SelectOffer(o)
  \/ \E i \in DOMAIN entries : SelectEntry(i)
  \/ \E f \in Field, t \in Texts : TypeInto(f, t)
  \/ updateTotalAction
  \/ addToContractAction
  \/ DismissAlert
  \/ ConfirmAdd
  \/ ConfirmUpdate
  \/ BackFromForm
  \/ NewContract
  \/ Ended

Spec == Init /\ [][Next]_vars

-----------------------------------------------------------------------------
(* Properties.                                                             *)

\* Every variable has its type, and only an edit form has a row.
FormsTypeOK ==
  /\ screen \in {"list", "add", "edit"}
  /\ draft \in Alteration
  /\ fields \in [Field -> Text]
  /\ costWasCalculated \in BOOLEAN
  /\ alert \in {"none", "calculateFirst", "confirm"}
  /\ entries \in Seq(Alteration)
  /\ row \in Nat
  /\ screen = "edit" <=> row \in DOMAIN entries
  /\ touched \subseteq Field

\* Every alteration of the contract carries the total its own prices give, so
\* that the PDF's rows add up to its subtotal: no path writes a draft whose
\* total was never calculated (AddAlterationVC 37-81, EditAlterationVC 32-85,
\* ReviewContractVC 221-231).
TotalsAgree == \A i \in DOMAIN entries : Ledger!Agrees(entries[i])

\* Whatever the forms do is a step of the ledger: an entry at the end, or one
\* entry amended with the total its prices give, or another contract.
FormsKeepTheLedger == Ledger!LedgerSpec

\* An edit never stores a guess: when "Update" changes an entry, every field
\* held a number and the entry has those numbers; the forced unwraps fail
\* before the write and not after it (EditAlterationVC 46-57, 77-85).
EditStoresWhatIsShown ==
  [][(screen = "edit" /\ entries' # entries /\ entries' # <<>>) =>
       \A f \in Field : Readable(f, fields[f])
                          /\ entries'[row][f] = ValueIn(f, fields[f])]_vars

\* The add form loses nothing: a field that was not typed into reads as the
\* price the catalogue proposes, although it is shown in whole dollars, and
\* that price is in the range the form displays (AddAlterationVC 93-116).
AddFormExact ==
  screen = "add" =>
    \E o \in Offers :
      /\ draft.minCost = o.minCost /\ draft.maxCost = o.maxCost
      /\ \A f \in Field \ touched : ValueIn(f, fields[f]) = o[f]
      /\ o.minCost <= o.actualCost /\ o.actualCost <= o.maxCost

\* "if totalcost hasn't been updated" (AddAlterationVC 38): when the add form
\* asks for confirmation, the total was updated for what the form shows.
ConfirmedTotalIsCurrent ==
  (screen = "add" /\ alert = "confirm") =>
    draft = calculateCost(draft, fields)

\* "get updated field values from user edits" (EditAlterationVC 47): a field
\* the user did not edit keeps its value.
UneditedFieldKept ==
  (screen = "edit" /\ alert = "confirm") =>
    \A f \in Field \ touched : ValueIn(f, fields[f]) = entries[row][f]
=============================================================================
