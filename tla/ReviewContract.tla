--------------------------- MODULE ReviewContract ---------------------------
(***************************************************************************)
(* Reviewing, editing and exporting a contract: ReviewContractVC loads the *)
(* contract's array and then one alteration per uid, each by a read that   *)
(* is answered in its own time; EditAlterationVC writes one back; the PDF  *)
(* is made from whatever the table's array holds. Composed with the flow   *)
(* that creates the contract and adds to it.                               *)
(***************************************************************************)
EXTENDS ContractFlow

CONSTANT MaxRounds        \* bound: how often the review screen may appear

ASSUME MaxRoundsAssumption == MaxRounds \in Nat

VARIABLES
  screen,      \* "home" stands for the screens before the review
  uidArray,    \* alterationsUIDArray
  rows,        \* alterationStructArray
  shown,       \* the rows the table drew at its last reloadData
  editing,     \* EditAlterationVC.myAlterationStruct
  printed,     \* the rows of the last PDF
  rounds,      \* how often viewWillAppear has run
  overlapped   \* history: it ran while reads of an earlier round were open

reviewVars == <<screen, uidArray, rows, shown, editing, printed, rounds,
                overlapped>>
allVars == <<vars, reviewVars>>

Row == [uid : Keys, contractUID : Keys, cost : Costs]
NoRow == [uid |-> NoUID, contractUID |-> NoUID, cost |-> NoCost]

\* A mutant of RowOf: the row does not keep its contract.
RowOfNoContract(e) ==
  [uid |-> e.key, contractUID |-> NoUID, cost |-> e.node.cost]

RowOf(e) == [uid |-> e.key, contractUID |-> e.node.ref, cost |-> e.node.cost]

ReviewInit ==
  /\ screen = "home"
  /\ uidArray = <<>> /\ rows = <<>> /\ shown = <<>>
  /\ editing = NoRow
  /\ printed = <<>>
  /\ rounds = 0
  /\ overlapped = FALSE

InitAll == Init /\ ReviewInit

\* The elements of q at the positions S, in their order.
Picked(q, S) ==
  LET upTo[i \in 0..Len(q)] ==
        IF i = 0 THEN <<>>
        ELSE IF i \in S THEN Append(upTo[i - 1], q[i]) ELSE upTo[i - 1]
  IN  upTo[Len(q)]

\* The reads of this review screen that were not yet handled.
OpenReads ==
  {e \in Elements(events) : e.purpose # "append"}
    \cup UNION {{r \in Elements(listens[k]) : r.purpose # "append"} : k \in Keys}

-----------------------------------------------------------------------------
(* ReviewContractVC.                                                       *)

\* viewWillAppear: the contract's array is read again.
Appear ==
  /\ rounds < MaxRounds
  /\ rounds' = rounds + 1
  /\ Observe(current.uid, [purpose |-> "uids", arg |-> current.uid])

\* A new controller, its arrays empty.
OpenReview ==
  /\ screen = "home"
  /\ current.uid # NoUID
  /\ screen' = "review"
  /\ Appear
  /\ uidArray' = <<>> /\ rows' = <<>> /\ shown' = <<>>
  /\ overlapped' = FALSE
  /\ UNCHANGED <<server, puts, applied, acked, released, connected, nextKey,
                 current, editing, printed>>

\* No contract: nothing is read, and the alert's handler pops the screen.
OpenReviewWithoutContract ==
  /\ screen = "home"
  /\ current.uid = NoUID
  /\ screen' = "alert"
  /\ uidArray' = <<>> /\ rows' = <<>> /\ shown' = <<>>
  /\ UNCHANGED <<vars, editing, printed, rounds, overlapped>>

\* The block of getAlterationUIDs: the rows are dropped without a reload and
\* every alteration is read.
UidsCallback ==
  /\ events # <<>>
  /\ LET e    == Head(events)
         uids == Elements(e.node.list) \ {Marker}
         r(k) == [purpose |-> "struct", arg |-> k]
         now  == {i \in DOMAIN e.node.list :
                    e.node.list[i] \in uids
                      /\ Complete(e.node.list[i], r(e.node.list[i]))}
         known == Picked(e.node.list, now)
     IN  /\ e.purpose = "uids"
         /\ IF e.node.kind \in {"contract", "list"}
              THEN /\ uidArray' = e.node.list
                   /\ rows' = <<>>
                   /\ events' = Tail(events) \o
                        [i \in DOMAIN known |-> EventOf(known[i], r(known[i]))]
                   /\ listens' = [k \in Keys |->
                        IF k \in uids /\ ~Complete(k, r(k))
                          THEN Append(listens[k], r(k)) ELSE listens[k]]
              ELSE /\ events' = Tail(events)
                   /\ UNCHANGED <<uidArray, rows, listens>>
  /\ UNCHANGED <<server, puts, applied, acked, released, connected, nextKey,
                 current, screen, shown, editing, printed, rounds, overlapped>>

\* The block of getAlterationStructs: one row more, and the table reloads.
StructCallback ==
  /\ events # <<>>
  /\ LET e == Head(events)
     IN  /\ e.purpose = "struct"
         /\ rows' = IF e.node.kind = "alteration" THEN Append(rows, RowOf(e))
                                                  ELSE rows
         /\ shown' = IF e.node.kind = "alteration" THEN rows' ELSE shown
  /\ events' = Tail(events)
  /\ UNCHANGED <<server, puts, applied, acked, released, connected, listens,
                 nextKey, current, screen, uidArray, editing, printed, rounds,
                 overlapped>>

\* A row is tapped and its struct handed to the edit screen. A row that the
\* array no longer has ends the process (index out of range).
SelectRow(i) ==
  /\ screen = "review"
  /\ i \in DOMAIN shown
  /\ i \in DOMAIN rows
  /\ screen' = "edit"
  /\ editing' = rows[i]
  /\ UNCHANGED <<vars, uidArray, rows, shown, printed, rounds, overlapped>>

\* A mutant of ConfirmEdit: the struct is made anew, without its contract.
ConfirmEditNoContract(cost) ==
  /\ screen = "edit"
  /\ screen' = "review"
  /\ Issue(<<AlterationPut(editing.uid, NoUID, cost)>>)
  /\ Appear
  /\ overlapped' = (overlapped \/ OpenReads # {})
  /\ UNCHANGED <<server, applied, acked, released, connected, nextKey, current,
                 uidArray, rows, shown, editing, printed>>

\* "Update" confirmed: the alteration is written and the review comes back.
ConfirmEdit(cost) ==
  /\ screen = "edit"
  /\ screen' = "review"
  /\ Issue(<<AlterationPut(editing.uid, editing.contractUID, cost)>>)
  /\ Appear
  /\ overlapped' = (overlapped \/ OpenReads # {})
  /\ UNCHANGED <<server, applied, acked, released, connected, nextKey, current,
                 uidArray, rows, shown, editing, printed>>

BackFromEdit ==
  /\ screen = "edit"
  /\ screen' = "review"
  /\ Appear
  /\ overlapped' = (overlapped \/ OpenReads # {})
  /\ UNCHANGED <<server, puts, applied, acked, released, connected, nextKey,
                 current, uidArray, rows, shown, editing, printed>>

\* reviewAndSignAction: the PDF gets the array as it is.
ReviewAndSign ==
  /\ screen = "review"
  /\ printed' = rows
  /\ UNCHANGED <<vars, screen, uidArray, rows, shown, editing, rounds,
                 overlapped>>

\* A mutant of CloseReview: the open reads answer to the next review.
CloseReviewKeepsReads ==
  /\ screen \in {"review", "alert"}
  /\ screen' = "home"
  /\ UNCHANGED <<vars, uidArray, rows, shown, editing, printed, rounds,
                 overlapped>>

\* The controller is popped. Its open reads still answer, to a controller that
\* nobody sees: they are dropped here.
CloseReview ==
  LET Appends(q) == Picked(q, {i \in DOMAIN q : q[i].purpose = "append"})
  IN  /\ screen \in {"review", "alert"}
      /\ screen' = "home"
      /\ events' = Appends(events)
      /\ listens' = [k \in Keys |-> Appends(listens[k])]
      /\ UNCHANGED <<server, puts, applied, acked, released, connected,
                     nextKey, current, uidArray, rows, shown, editing, printed,
                     rounds, overlapped>>

-----------------------------------------------------------------------------
AtHome ==
  /\ screen = "home"
  /\ CreateContract \/ \E cost \in Costs : AddAlteration(cost)
  /\ UNCHANGED reviewVars

KillAll ==
  /\ Kill
  /\ screen' = "home"
  /\ uidArray' = <<>> /\ rows' = <<>> /\ shown' = <<>>
  /\ editing' = NoRow
  /\ overlapped' = FALSE
  /\ UNCHANGED <<printed, rounds>>

Background == (AppendCallback \/ Network) /\ UNCHANGED reviewVars

NextAll ==
  \/ AtHome
  \/ Background
  \/ KillAll
  \/ OpenReview
  \/ OpenReviewWithoutContract
  \/ UidsCallback
  \/ StructCallback
  \/ \E i \in DOMAIN shown : SelectRow(i)
  \/ \E cost \in Costs : ConfirmEdit(cost)
  \/ BackFromEdit
  \/ ReviewAndSign
  \/ CloseReview

SpecAll == InitAll /\ [][NextAll]_allVars

-----------------------------------------------------------------------------
(* Properties.                                                             *)

\* Every variable has its type.
ReviewTypeOK ==
  /\ TypeOK
  /\ screen \in {"home", "alert", "review", "edit"}
  /\ uidArray \in Seq(Keys \cup {Marker})
  /\ rows \in Seq(Row) /\ shown \in Seq(Row) /\ printed \in Seq(Row)
  /\ editing \in Row \cup {NoRow}
  /\ rounds \in 0..MaxRounds
  /\ overlapped \in BOOLEAN

Uids(rs) == {rs[i].uid : i \in DOMAIN rs}
NoneTwice(rs) == \A i, j \in DOMAIN rs : rs[i].uid = rs[j].uid => i = j

\* If no round of loading began before the last one was over, then once all
\* reads are handled the review shows every alteration of the array it loaded,
\* once, with the cost it was last given (ReviewContractVC 128-163,
\* FirebaseHelperMethods 160-170).
QuietReviewIsTheContract ==
  (screen = "review" /\ ~overlapped /\ OpenReads = {}) =>
    /\ Uids(rows) = Elements(uidArray) \ {Marker}
    /\ NoneTwice(rows)
    /\ \A i \in DOMAIN rows : rows[i].cost = View(rows[i].uid).cost

\* Only alterations of the contract under review are ever listed or edited,
\* also when another contract was reviewed before and its reads are late. An
\* edit writes back the contract of the struct it holds (EditAlterationVC
\* 46-57), so it cannot move an alteration to another contract.
RowsOfThisContract ==
  screen \in {"review", "edit"} =>
    /\ \A i \in DOMAIN rows : rows[i].contractUID = current.uid
    /\ screen = "edit" => editing.contractUID = current.uid

\* "Get the item associated with this row and pass it along"
\* (ReviewContractVC 244): a tapped row is the row the table shows there.
TappedRowIsTheShownRow ==
  screen = "review" =>
    \A i \in DOMAIN shown : i \in DOMAIN rows /\ rows[i].uid = shown[i].uid

\* "Export Contract as PDF (Print & Sign)" (README 42): the exported PDF lists
\* no alteration of the contract twice.
PrintedOnce == NoneTwice(printed)
=============================================================================
