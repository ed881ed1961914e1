----------------------------- MODULE Catalogue -----------------------------
(***************************************************************************)
(* The alterations the app offers: alterationSections and the classes it   *)
(* is made of. Names, details and cost units are wording and left out; an  *)
(* alteration is its prices. Amounts of money are in cents.                *)
(***************************************************************************)
EXTENDS Integers, Sequences

\* A subclass: every one proposes its lowest price and one unit.
Item(min, max, secondary) ==
  [minCost |-> 100 * min, maxCost |-> 100 * max, actualCost |-> 100 * min,
   units |-> 1, secondaryCost |-> 100 * secondary]

Custom == <<Item(50, 50, 0)>>

Bodice ==
  <<Item(27, 27, 0), Item(20, 20, 0), Item(40, 40, 0), Item(50, 50, 0),
    Item(30, 60, 0), Item(20, 80, 0), Item(45, 65, 20), Item(40, 50, 0),
    Item(10, 10, 0)>>

Neckline == <<Item(40, 80, 0)>>

Sides ==
  <<Item(0, 0, 0), Item(60, 100, 0), Item(60, 100, 0), Item(10, 10, 0),
    Item(75, 75, 0)>>

SleevesOrStraps ==
  <<Item(20, 40, 0), Item(85, 100, 0), Item(250, 250, 0), Item(25, 40, 0),
    Item(30, 50, 20), Item(20, 40, 0), Item(50, 80, 0), Item(30, 50, 20),
    Item(50, 70, 20), Item(30, 50, 0), Item(60, 100, 0), Item(20, 50, 0),
    Item(40, 40, 0)>>

BackOfDress ==
  <<Item(250, 250, 0), Item(60, 120, 0), Item(150, 200, 0), Item(90, 90, 0),
    Item(40, 40, 0)>>

Seams == <<Item(40, 50, 0)>>

Hem ==
  <<Item(0, 0, 0), Item(25, 25, 0), Item(60, 60, 0), Item(75, 75, 0),
    Item(90, 90, 0), Item(150, 300, 0), Item(0, 20, 0), Item(35, 35, 0),
    Item(140, 170, 0), Item(50, 80, 0), Item(80, 150, 0), Item(75, 75, 0),
    Item(60, 60, 0), Item(0, 0, 0)>>

Skirt ==
  <<Item(25, 25, 0), Item(20, 20, 0), Item(50, 50, 0), Item(10, 10, 0)>>

Veils ==
  <<Item(35, 90, 0), Item(30, 80, 0), Item(10, 10, 0), Item(50, 50, 0),
    Item(20, 50, 0)>>

PromStraps ==
  <<Item(0, 0, 0), Item(30, 50, 0), Item(25, 40, 0), Item(25, 40, 0)>>

PromTakeInOrOut ==
  <<Item(40, 60, 0), Item(30, 30, 0), Item(65, 65, 0), Item(100, 200, 0),
    Item(45, 45, 20), Item(30, 30, 0)>>

PromHem ==
  <<Item(20, 20, 0), Item(35, 35, 0), Item(35, 35, 0), Item(20, 20, 0),
    Item(50, 50, 0), Item(65, 65, 0), Item(40, 70, 0), Item(50, 60, 0)>>

Tux ==
  <<Item(20, 20, 0), Item(80, 80, 0)>>

\* The table of SeeAlterationsVC, section by section.
alterationSections ==
  <<Custom, Bodice, Neckline, Sides, SleevesOrStraps, BackOfDress, Seams,
    Hem, Skirt, Veils, PromStraps, PromTakeInOrOut, PromHem, Tux>>
=============================================================================
