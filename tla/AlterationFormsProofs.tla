----------------------- MODULE AlterationFormsProofs -----------------------
(***************************************************************************)
(* Proofs about AlterationForms, for every catalogue of offers, every set  *)
(* of texts and every number of alterations: type correctness, that every  *)
(* stored total agrees with its prices, that the forms implement the       *)
(* ledger, and that the add form over whole dollars loses nothing.         *)
(***************************************************************************)
EXTENDS AlterationForms, TLAPS

\* What makes TotalsAgree inductive: the flag vouches for the draft's total,
\* only a calculated draft is up for confirmation, and an edit form's draft is
\* the offer of the entry it edits.
DraftVouched == costWasCalculated => Ledger!Agrees(draft)
OnlyCalculatedConfirmed == alert = "confirm" => costWasCalculated
DraftOfRow == screen = "edit" => Ledger!SameOffer(draft, entries[row])

FormsInv ==
  /\ FormsTypeOK
  /\ TotalsAgree
  /\ DraftVouched
  /\ OnlyCalculatedConfirmed
  /\ DraftOfRow

-----------------------------------------------------------------------------
(* The conversions.                                                        *)

\* "%.0f" of an amount is a whole number of dollars.
LEMMA DollarsType ==
  ASSUME NEW c \in Nat PROVE Dollars(c) \in Nat
  BY DEF Dollars

\* A form opens with three texts.
LEMMA PopulateType ==
  ASSUME NEW a \in Alteration PROVE populateFields(a) \in [Field -> Text]
<1>1. ASSUME NEW f \in Field PROVE a[f] \in Nat
  BY DEF Alteration, Field
<1>2. ASSUME NEW f \in Field
      PROVE  (IF f = "units" THEN a.units ELSE Dollars(a[f])) \in Nat
  BY <1>1, DollarsType DEF Alteration
<1>3. ASSUME NEW n \in Nat PROVE WholeText(n) \in Text
  BY DEF WholeText, Text
<1> QED
  BY <1>2, <1>3 DEF populateFields

\* Calculating keeps the type and the offer, and the total it sets agrees.
LEMMA CalculateFacts ==
  ASSUME NEW a \in Alteration, NEW fs \in [Field -> Text]
  PROVE  /\ calculateCost(a, fs) \in Alteration
         /\ Ledger!Agrees(calculateCost(a, fs))
         /\ Ledger!SameOffer(calculateCost(a, fs), a)
<1> DEFINE p == PriceIn(fs["actualCost"])
           u == UnitsIn(fs["units"])
           s == PriceIn(fs["secondaryCost"])
           t == p * u + s
           c == calculateCost(a, fs)
<1>1. ASSUME NEW x \in Text PROVE PriceIn(x) \in Nat /\ UnitsIn(x) \in Nat
  BY DEF PriceIn, UnitsIn, PriceGuess, UnitsGuess, Text
<1>2. p \in Nat /\ u \in Nat /\ s \in Nat
  BY <1>1 DEF Field
<1>3. c = [a EXCEPT !.actualCost = p, !.units = u, !.secondaryCost = s,
                    !.totalCost = t]
  BY DEF calculateCost, Ledger!getTotalCost
<1> HIDE DEF p, u, s, c
<1>4. t \in Nat
  BY <1>2
<1> HIDE DEF t
<1>5. /\ c \in Alteration
      /\ c.actualCost = p /\ c.units = u /\ c.secondaryCost = s
      /\ c.totalCost = t
      /\ c.minCost = a.minCost /\ c.maxCost = a.maxCost
  BY <1>2, <1>3, <1>4 DEF Alteration
<1>6. Ledger!Agrees(c) /\ Ledger!SameOffer(c, a)
  BY <1>5 DEF t, Ledger!Agrees, Ledger!SameOffer, Ledger!getTotalCost
<1> QED
  BY <1>5, <1>6 DEF c

\* What AlterationStruct.init makes is an alteration.
LEMMA FreshType ==
  ASSUME NEW o \in Offers PROVE Fresh(o) \in Alteration
  BY OffersAssumption DEF Fresh, Offer, Alteration

\* An empty form is well typed.
LEMMA EmptyFormType ==
  NoDraft \in Alteration /\ NoFields \in [Field -> Text]
  BY DEF NoDraft, NoFields, Alteration, Text, Field

-----------------------------------------------------------------------------
(* The invariant.                                                          *)

\* The app starts with an empty list and no form.
LEMMA FormsInit == Init => FormsInv
<1> SUFFICES ASSUME Init PROVE FormsInv
  OBVIOUS
<1>1. entries = <<>> /\ row = 0 /\ screen = "list" /\ touched = {}
      /\ alert = "none" /\ costWasCalculated = FALSE
      /\ draft = NoDraft /\ fields = NoFields
  BY DEF Init
<1>2. entries \in Seq(Alteration) /\ DOMAIN entries = {}
  BY <1>1
<1>3. FormsTypeOK
  BY <1>1, <1>2, EmptyFormType DEF FormsTypeOK
<1> QED
  BY <1>1, <1>2, <1>3
  DEF FormsInv, TotalsAgree, DraftVouched, OnlyCalculatedConfirmed, DraftOfRow

\* Closing a form over any list of well-formed entries keeps the invariant.
LEMMA CloseKeeps ==
  ASSUME Close, entries' \in Seq(Alteration),
         \A i \in DOMAIN entries' : Ledger!Agrees(entries'[i])
  PROVE  FormsInv'
<1>1. row' = 0 /\ screen' = "list" /\ touched' = {} /\ alert' = "none"
      /\ costWasCalculated' = FALSE /\ draft' = NoDraft /\ fields' = NoFields
  BY DEF Close
<1>2. 0 \notin DOMAIN entries'
  OBVIOUS
<1>3. FormsTypeOK'
  BY <1>1, <1>2, EmptyFormType DEF FormsTypeOK
<1>4. TotalsAgree'
  BY DEF TotalsAgree, Ledger!Agrees, Ledger!getTotalCost
<1> QED
  BY <1>1, <1>3, <1>4
  DEF FormsInv, DraftVouched, OnlyCalculatedConfirmed, DraftOfRow

\* Opening a form on a well-formed alteration keeps the invariant.
LEMMA OpenKeeps ==
  ASSUME FormsInv, NEW s \in {"add", "edit"}, NEW a \in Alteration,
         NEW r \in Nat, Open(s, a, r),
         s = "edit" <=> r \in DOMAIN entries,
         s = "edit" => a = entries[r]
  PROVE  FormsInv'
<1>1. /\ row' = r /\ screen' = s /\ touched' = {} /\ alert' = "none"
      /\ costWasCalculated' = FALSE /\ draft' = a
      /\ fields' = populateFields(a) /\ entries' = entries
  BY DEF Open
<1>2. FormsTypeOK'
  BY <1>1, PopulateType DEF FormsTypeOK, FormsInv
<1>3. TotalsAgree'
  BY <1>1 DEF TotalsAgree, FormsInv, Ledger!Agrees, Ledger!getTotalCost
<1>4. DraftOfRow'
  BY <1>1 DEF DraftOfRow, Ledger!SameOffer
<1> QED
  BY <1>1, <1>2, <1>3, <1>4
  DEF FormsInv, DraftVouched, OnlyCalculatedConfirmed

\* Every step keeps the invariant.
LEMMA FormsNext == FormsInv /\ [Next]_vars => FormsInv'
<1> SUFFICES ASSUME FormsInv, [Next]_vars PROVE FormsInv'
  OBVIOUS
<1> USE DEF FormsInv
<1> DEFINE Parts == /\ TotalsAgree /\ DraftVouched
                    /\ OnlyCalculatedConfirmed /\ DraftOfRow
<1>1. ASSUME NEW o \in Offers, SelectOffer(o) PROVE FormsInv'
  <2>1. Open("add", Fresh(o), 0) /\ 0 \notin DOMAIN entries
    BY <1>1 DEF SelectOffer, FormsTypeOK
  <2> QED
    BY <2>1, FreshType, OpenKeeps
<1>2. ASSUME NEW i \in DOMAIN entries, SelectEntry(i) PROVE FormsInv'
  <2>1. entries[i] \in Alteration /\ i \in Nat
    BY DEF FormsTypeOK
  <2> QED
    BY <1>2, <2>1, OpenKeeps DEF SelectEntry
<1>3. ASSUME NEW f \in Field, NEW t \in Texts, TypeInto(f, t) PROVE FormsInv'
  <2>1. /\ screen' = screen /\ draft' = draft /\ alert' = alert
        /\ costWasCalculated' = costWasCalculated
        /\ entries' = entries /\ row' = row
        /\ fields' = [fields EXCEPT ![f] = t] /\ touched' = touched \cup {f}
    BY <1>3 DEF TypeInto
  <2>2. FormsTypeOK'
    BY <2>1, TextsAssumption DEF FormsTypeOK
  <2>3. Parts'
    BY <2>1 DEF TotalsAgree, DraftVouched, OnlyCalculatedConfirmed, DraftOfRow,
                Ledger!Agrees, Ledger!SameOffer, Ledger!getTotalCost
  <2> QED
    BY <2>2, <2>3
<1>4. ASSUME updateTotalAction PROVE FormsInv'
  <2>1. /\ screen' = screen /\ draft' = calculateCost(draft, fields)
        /\ alert' = alert /\ costWasCalculated' = TRUE
        /\ entries' = entries /\ row' = row /\ fields' = fields
        /\ touched' = touched
    BY <1>4 DEF updateTotalAction
  <2>2. /\ draft' \in Alteration
        /\ Ledger!Agrees(draft')
        /\ Ledger!SameOffer(draft', draft)
    BY <2>1, CalculateFacts DEF FormsTypeOK
  <2>3. FormsTypeOK'
    BY <2>1, <2>2 DEF FormsTypeOK
  <2>4. Parts'
    BY <2>1, <2>2
    DEF TotalsAgree, DraftVouched, OnlyCalculatedConfirmed, DraftOfRow,
        Ledger!Agrees, Ledger!SameOffer, Ledger!getTotalCost
  <2> QED
    BY <2>3, <2>4
<1>5. ASSUME addToContractAction PROVE FormsInv'
  <2>1. /\ screen' = screen /\ draft' = draft
        /\ alert' = IF costWasCalculated THEN "confirm" ELSE "calculateFirst"
        /\ costWasCalculated' = costWasCalculated
        /\ entries' = entries /\ row' = row /\ fields' = fields
        /\ touched' = touched
    BY <1>5 DEF addToContractAction
  <2>2. FormsTypeOK'
    BY <2>1 DEF FormsTypeOK
  <2>3. Parts'
    BY <2>1
    DEF TotalsAgree, DraftVouched, OnlyCalculatedConfirmed, DraftOfRow,
        Ledger!Agrees, Ledger!SameOffer, Ledger!getTotalCost
  <2> QED
    BY <2>2, <2>3
<1>6. ASSUME DismissAlert PROVE FormsInv'
  <2>1. /\ screen' = screen /\ draft' = draft /\ alert' = "none"
        /\ costWasCalculated' = costWasCalculated
        /\ entries' = entries /\ row' = row /\ fields' = fields
        /\ touched' = touched
    BY <1>6 DEF DismissAlert
  <2>2. FormsTypeOK'
    BY <2>1 DEF FormsTypeOK
  <2>3. Parts'
    BY <2>1
    DEF TotalsAgree, DraftVouched, OnlyCalculatedConfirmed, DraftOfRow,
        Ledger!Agrees, Ledger!SameOffer, Ledger!getTotalCost
  <2> QED
    BY <2>2, <2>3
<1>7. ASSUME ConfirmAdd PROVE FormsInv'
  <2>1. Close /\ entries' = Append(entries, draft)
    BY <1>7 DEF ConfirmAdd
  <2>2. Ledger!Agrees(draft)
    BY <1>7 DEF ConfirmAdd, OnlyCalculatedConfirmed, DraftVouched
  <2>3. entries' \in Seq(Alteration)
    BY <2>1 DEF FormsTypeOK
  <2>4. ASSUME NEW i \in DOMAIN entries' PROVE Ledger!Agrees(entries'[i])
    <3>1. CASE i \in DOMAIN entries
      <4>1. entries'[i] = entries[i]
        BY <2>1, <3>1 DEF FormsTypeOK
      <4> QED
        BY <3>1, <4>1 DEF TotalsAgree
    <3>2. CASE i \notin DOMAIN entries
      <4>1. entries'[i] = draft
        BY <2>1, <3>2 DEF FormsTypeOK
      <4> QED
        BY <2>2, <4>1
    <3> QED
      BY <3>1, <3>2
  <2> QED
    BY <2>1, <2>3, <2>4, CloseKeeps
<1>8. ASSUME ConfirmUpdate PROVE FormsInv'
  <2> DEFINE c == calculateCost(draft, fields)
  <2>1. Close /\ row \in DOMAIN entries
    BY <1>8 DEF ConfirmUpdate, FormsTypeOK
  <2>2. c \in Alteration /\ Ledger!Agrees(c)
    BY CalculateFacts DEF FormsTypeOK
  <2>3. entries' = [entries EXCEPT ![row] = c] \/ entries' = <<>>
    BY <1>8 DEF ConfirmUpdate
  <2> HIDE DEF c
  <2>4. CASE entries' = <<>>
    BY <2>1, <2>4, CloseKeeps
  <2>5. CASE entries' = [entries EXCEPT ![row] = c]
    <3>1. entries' \in Seq(Alteration) /\ DOMAIN entries' = DOMAIN entries
      BY <2>1, <2>2, <2>5 DEF FormsTypeOK
    <3>2. ASSUME NEW i \in DOMAIN entries' PROVE Ledger!Agrees(entries'[i])
      <4>1. entries'[i] = IF i = row THEN c ELSE entries[i]
        BY <2>1, <2>5, <3>1 DEF FormsTypeOK
      <4> QED
        BY <2>2, <3>1, <4>1 DEF TotalsAgree
    <3> QED
      BY <2>1, <3>1, <3>2, CloseKeeps
  <2> QED
    BY <2>3, <2>4, <2>5
<1>9. ASSUME BackFromForm PROVE FormsInv'
  <2>1. Close /\ entries' = entries
    BY <1>9 DEF BackFromForm
  <2>2. entries' \in Seq(Alteration)
    BY <2>1 DEF FormsTypeOK
  <2>3. ASSUME NEW i \in DOMAIN entries' PROVE Ledger!Agrees(entries'[i])
    BY <2>1 DEF TotalsAgree
  <2> QED
    BY <2>1, <2>2, <2>3, CloseKeeps
<1>10. ASSUME NewContract PROVE FormsInv'
  <2>1. /\ screen = "list" /\ screen' = screen /\ draft' = draft
        /\ alert' = alert /\ costWasCalculated' = costWasCalculated
        /\ entries' = <<>> /\ row' = row /\ fields' = fields
        /\ touched' = touched
    BY <1>10 DEF NewContract, formVars
  <2>2. entries' \in Seq(Alteration) /\ DOMAIN entries' = {}
    BY <2>1
  <2>3. FormsTypeOK'
    BY <2>1, <2>2 DEF FormsTypeOK
  <2>4. Parts'
    BY <2>1, <2>2
    DEF TotalsAgree, DraftVouched, OnlyCalculatedConfirmed, DraftOfRow,
        Ledger!Agrees, Ledger!SameOffer, Ledger!getTotalCost
  <2> QED
    BY <2>3, <2>4
<1>11. ASSUME Ended PROVE FormsInv'
  <2>1. Close /\ entries' = <<>>
    BY <1>11 DEF Ended
  <2> QED
    BY <2>1, CloseKeeps
<1>12. CASE UNCHANGED vars
  <2>1. /\ screen' = screen /\ draft' = draft /\ alert' = alert
        /\ costWasCalculated' = costWasCalculated
        /\ entries' = entries /\ row' = row /\ fields' = fields
        /\ touched' = touched
    BY <1>12 DEF vars, formVars
  <2>2. FormsTypeOK'
    BY <2>1 DEF FormsTypeOK
  <2>3. Parts'
    BY <2>1
    DEF TotalsAgree, DraftVouched, OnlyCalculatedConfirmed, DraftOfRow,
        Ledger!Agrees, Ledger!SameOffer, Ledger!getTotalCost
  <2> QED
    BY <2>2, <2>3
<1> QED
  BY <1>1, <1>2, <1>3, <1>4, <1>5, <1>6, <1>7, <1>8, <1>9, <1>10, <1>11, <1>12
  DEF Next

-----------------------------------------------------------------------------
(* The theorems.                                                           *)

\* The inductive invariant holds in every reachable state.
LEMMA FormsInvariant == Spec => []FormsInv
  BY FormsInit, FormsNext, PTL DEF Spec

\* Type correctness of the two forms, for every catalogue and every text.
THEOREM FormsTypeCorrect == Spec => []FormsTypeOK
<1>1. FormsInv => FormsTypeOK
  BY DEF FormsInv
<1> QED
  BY <1>1, FormsInvariant, PTL

\* Every alteration either form stores carries the total its own prices give
\* (AddAlterationVC 37-81, EditAlterationVC 32-85).
THEOREM TotalsAlwaysAgree == Spec => []TotalsAgree
<1>1. FormsInv => TotalsAgree
  BY DEF FormsInv
<1> QED
  BY <1>1, FormsInvariant, PTL

\* Each step of the forms is a step of the ledger or leaves it alone.
LEMMA StepKeepsLedger ==
  ASSUME FormsInv, [Next]_vars
  PROVE  [Ledger!Enter \/ Ledger!Amend \/ Ledger!Begin]_entries
<1> USE DEF FormsInv
<1>1. CASE ConfirmAdd
  <2>1. entries' = Append(entries, draft) /\ Ledger!Agrees(draft)
    BY <1>1 DEF ConfirmAdd, OnlyCalculatedConfirmed, DraftVouched
  <2>2. /\ Len(entries') = Len(entries) + 1
        /\ \A i \in DOMAIN entries : entries'[i] = entries[i]
        /\ entries'[Len(entries) + 1] = draft
    BY <2>1 DEF FormsTypeOK
  <2> QED
    BY <2>1, <2>2 DEF Ledger!Enter
<1>2. CASE ConfirmUpdate
  <2> DEFINE c == calculateCost(draft, fields)
  <2>1. row \in DOMAIN entries /\ screen = "edit"
    BY <1>2 DEF ConfirmUpdate, FormsTypeOK
  <2>2. Ledger!Agrees(c) /\ Ledger!SameOffer(c, entries[row])
    BY <2>1, CalculateFacts DEF FormsTypeOK, DraftOfRow, Ledger!SameOffer
  <2>3. entries' = [entries EXCEPT ![row] = c] \/ entries' = <<>>
    BY <1>2 DEF ConfirmUpdate
  <2> HIDE DEF c
  <2>4. CASE entries' = <<>>
    BY <2>4 DEF Ledger!Begin
  <2>5. CASE entries' = [entries EXCEPT ![row] = c]
    <3>1. /\ Len(entries') = Len(entries)
          /\ \A j \in DOMAIN entries \ {row} : entries'[j] = entries[j]
          /\ entries'[row] = c
      BY <2>1, <2>5 DEF FormsTypeOK
    <3> QED
      BY <2>1, <2>2, <3>1 DEF Ledger!Amend
  <2> QED
    BY <2>3, <2>4, <2>5
<1>3. CASE NewContract \/ Ended
  BY <1>3 DEF NewContract, Ended, Ledger!Begin
<1>4. CASE ~(ConfirmAdd \/ ConfirmUpdate \/ NewContract \/ Ended)
  BY <1>4 DEF Next, vars, SelectOffer, SelectEntry, Open, TypeInto,
              updateTotalAction, addToContractAction, DismissAlert,
              BackFromForm
<1> QED
  BY <1>1, <1>2, <1>3, <1>4

\* The forms implement the ledger: whatever is typed and pressed, entries are
\* only added at the end or amended one at a time, with agreeing totals.
THEOREM FormsImplementLedger == Spec => FormsKeepTheLedger
<1>1. Init => Ledger!LedgerInit
  BY DEF Init, Ledger!LedgerInit
<1>2. FormsInv /\ [Next]_vars
        => [Ledger!Enter \/ Ledger!Amend \/ Ledger!Begin]_entries
  BY StepKeepsLedger
<1> QED
  BY <1>1, <1>2, FormsInvariant, PTL
  DEF Spec, FormsKeepTheLedger, Ledger!LedgerSpec

\* The value the draft gets from a field is the one the field reads as.
LEMMA CalculatedValue ==
  ASSUME NEW a \in Alteration, NEW fs \in [Field -> Text], NEW f \in Field
  PROVE  calculateCost(a, fs)[f] = ValueIn(f, fs[f])
<1>1. CASE f = "actualCost"
  BY <1>1 DEF calculateCost, ValueIn, Alteration
<1>2. CASE f = "units"
  BY <1>2 DEF calculateCost, ValueIn, Alteration
<1>3. CASE f = "secondaryCost"
  BY <1>3 DEF calculateCost, ValueIn, Alteration
<1> QED
  BY <1>1, <1>2, <1>3 DEF Field

\* "Update" stores exactly what the fields read as, and only when all three
\* are numbers; a guess never reaches an entry through the edit form
\* (EditAlterationVC 46-57, 77-85).
THEOREM EditStoresOnlyWhatIsShown == Spec => EditStoresWhatIsShown
<1> DEFINE Shown == (screen = "edit" /\ entries' # entries /\ entries' # <<>>) =>
                      \A f \in Field : Readable(f, fields[f])
                        /\ entries'[row][f] = ValueIn(f, fields[f])
<1>1. ASSUME FormsInv, [Next]_vars PROVE [Shown]_vars
  <2> SUFFICES ASSUME screen = "edit", entries' # entries, entries' # <<>>,
                      NEW f \in Field
               PROVE  Readable(f, fields[f])
                        /\ entries'[row][f] = ValueIn(f, fields[f])
    OBVIOUS
  <2>1. ConfirmUpdate
    BY <1>1 DEF Next, vars, SelectOffer, SelectEntry, Open, TypeInto,
                updateTotalAction, addToContractAction, DismissAlert,
                ConfirmAdd, BackFromForm, NewContract, Ended
  <2>2. /\ \A g \in Field : Readable(g, fields[g])
        /\ entries' = [entries EXCEPT ![row] = calculateCost(draft, fields)]
    BY <2>1 DEF ConfirmUpdate
  <2>3. entries'[row] = calculateCost(draft, fields)
    BY <1>1, <2>2 DEF FormsInv, FormsTypeOK
  <2> QED
    BY <1>1, <2>2, <2>3, CalculatedValue DEF FormsInv, FormsTypeOK
<1> QED
  BY <1>1, FormsInvariant, PTL DEF Spec, EditStoresWhatIsShown

-----------------------------------------------------------------------------
(* The add form over a catalogue in whole dollars.                         *)

\* What the app's catalogue is (SeeAlterationsVC): prices in whole dollars,
\* the proposed one within its range. CatalogueIsExact of MCAlterationForms
\* evaluates the same fact over each of its alterations.
ExactOffers ==
  \A o \in Offers :
    /\ o.actualCost % 100 = 0 /\ o.secondaryCost % 100 = 0
    /\ o.minCost <= o.actualCost /\ o.actualCost <= o.maxCost

\* A whole number of dollars survives "%.0f" and Float(text).
LEMMA WholeDollarsRead ==
  ASSUME NEW c \in Nat, c % 100 = 0
  PROVE  PriceIn(WholeText(Dollars(c))) = c
<1>1. c = 100 * (c \div 100)
  OBVIOUS
<1>2. Dollars(c) = c \div 100
  BY DEF Dollars
<1> QED
  BY <1>1, <1>2 DEF PriceIn, WholeText

\* A number of units survives the field.
LEMMA UnitsRead ==
  ASSUME NEW n \in Nat PROVE UnitsIn(WholeText(n)) = n
<1>1. (100 * n) \div 100 = n
  OBVIOUS
<1> QED
  BY <1>1 DEF UnitsIn, WholeText

\* The fields of a fresh add form read as the offer's prices.
LEMMA FreshReads ==
  ASSUME ExactOffers, NEW o \in Offers, NEW f \in Field
  PROVE  ValueIn(f, populateFields(Fresh(o))[f]) = o[f]
<1>1. /\ o.actualCost \in Nat /\ o.secondaryCost \in Nat /\ o.units \in Nat
      /\ o.actualCost % 100 = 0 /\ o.secondaryCost % 100 = 0
  BY OffersAssumption DEF ExactOffers, Offer
<1>2. CASE f = "units"
  <2>1. populateFields(Fresh(o))[f] = WholeText(o.units)
    BY <1>2 DEF populateFields, Fresh
  <2> QED
    BY <1>1, <1>2, <2>1, UnitsRead DEF ValueIn
<1>3. CASE f = "actualCost"
  <2>1. populateFields(Fresh(o))[f] = WholeText(Dollars(o.actualCost))
    BY <1>3 DEF populateFields, Fresh
  <2> QED
    BY <1>1, <1>3, <2>1, WholeDollarsRead DEF ValueIn
<1>4. CASE f = "secondaryCost"
  <2>1. populateFields(Fresh(o))[f] = WholeText(Dollars(o.secondaryCost))
    BY <1>4 DEF populateFields, Fresh
  <2> QED
    BY <1>1, <1>4, <2>1, WholeDollarsRead DEF ValueIn
<1> QED
  BY <1>2, <1>3, <1>4 DEF Field

\* Every step keeps it: typing only gives up the field typed into, and
\* calculating keeps the offer's range.
LEMMA ExactNext ==
  ASSUME ExactOffers, FormsInv, AddFormExact, [Next]_vars
  PROVE  AddFormExact'
<1> USE DEF FormsInv
<1>1. ASSUME NEW o \in Offers, SelectOffer(o) PROVE AddFormExact'
  <2>1. draft' = Fresh(o) /\ fields' = populateFields(Fresh(o))
    BY <1>1 DEF SelectOffer, Open
  <2>2. draft'.minCost = o.minCost /\ draft'.maxCost = o.maxCost
    BY <2>1 DEF Fresh
  <2>3. \A f \in Field : ValueIn(f, fields'[f]) = o[f]
    BY <2>1, FreshReads
  <2>4. o.minCost <= o.actualCost /\ o.actualCost <= o.maxCost
    BY DEF ExactOffers
  <2> QED
    BY <2>2, <2>3, <2>4 DEF AddFormExact
<1>2. ASSUME NEW f \in Field, NEW t \in Texts, TypeInto(f, t) PROVE AddFormExact'
  <2>1. /\ screen' = screen /\ draft' = draft
        /\ fields' = [fields EXCEPT ![f] = t] /\ touched' = touched \cup {f}
    BY <1>2 DEF TypeInto
  <2>2. ASSUME NEW g \in Field \ touched' PROVE g \in Field \ touched /\ fields'[g] = fields[g]
    BY <2>1 DEF FormsTypeOK
  <2> QED
    BY <2>1, <2>2 DEF AddFormExact
<1>3. ASSUME updateTotalAction PROVE AddFormExact'
  <2>1. /\ screen' = screen /\ draft' = calculateCost(draft, fields)
        /\ fields' = fields /\ touched' = touched
    BY <1>3 DEF updateTotalAction
  <2>2. draft'.minCost = draft.minCost /\ draft'.maxCost = draft.maxCost
    BY <2>1, CalculateFacts DEF FormsTypeOK, Ledger!SameOffer
  <2> QED
    BY <2>1, <2>2 DEF AddFormExact
<1>4. CASE screen' # "add"
  BY <1>4 DEF AddFormExact
<1>5. CASE UNCHANGED <<screen, draft, fields, touched>>
  BY <1>5 DEF AddFormExact
<1>6. ASSUME NEW i \in DOMAIN entries, SelectEntry(i) PROVE screen' # "add"
  BY <1>6 DEF SelectEntry, Open
<1>7. Close => screen' # "add"
  BY DEF Close
<1> QED
  BY <1>1, <1>2, <1>3, <1>4, <1>5, <1>6, <1>7
  DEF Next, vars, formVars, addToContractAction, DismissAlert, ConfirmAdd,
      ConfirmUpdate, BackFromForm, NewContract, Ended

\* With a catalogue in whole dollars the add form loses nothing: what was not
\* typed into reads as the price proposed (AddAlterationVC 93-116). The edit
\* form has no such promise, as its prices are the user's.
THEOREM AddFormAlwaysExact == ExactOffers /\ Spec => []AddFormExact
<1> SUFFICES ASSUME ExactOffers PROVE Spec => []AddFormExact
  OBVIOUS
<1>1. Init => AddFormExact
  BY DEF Init, AddFormExact
<1>2. FormsInv /\ AddFormExact /\ [Next]_vars => AddFormExact'
  BY ExactNext
<1> QED
  BY <1>1, <1>2, FormsInvariant, PTL DEF Spec
=============================================================================
