# Pincushion in TLA+

Pincushion is an iOS app for a bridal alterations shop. A specialist signs in,
types a bride's measurements, creates a contract, picks alterations from a
catalogue, prices them, reviews the contract and exports it as a PDF. All data
is in a Firebase Realtime Database. The app is written against the asynchronous
client library: writes are fire-and-forget, reads call a block back some time
later, and the controllers keep their own copies of what they read.

This directory holds TLA+ models of the app's core and of the storage engine
that comes with it, TLC configurations that check them on small instances, and
proofs that TLAPS checks. Paths below are relative to
`src/pincushion/pincushion/`, those of LevelDB to
`src/pincushion/Pods/leveldb-library/`.

## Inventory

| Part | State | Operations | Talks to |
|---|---|---|---|
| Database client (vendored `FirebaseDatabase`) | outstanding writes, write tree, waiting reads, connection | `setValue`, `observeSingleEvent`, `childByAutoId`, reconnect | server; main queue |
| `Model/Firebase/FirebaseHelperMethods.swift` | none | add dress, contract, bride, measurement, alteration; append to a contract's array; overwrite an alteration | database client |
| `CreateContractVC` | bride, measurements, dates, `contractUID`, `dressUID` | create contract, sign out, auth listener | helpers, `ContractSingleton`, session |
| `SeeAlterationsVC`, `Model/Alteration Classes` | the catalogue, constant | pick an alteration | add form |
| `AddAlterationVC` | `myAlterationStruct`, three fields, `costWasCalculated` | calculate, add | helpers, `ContractSingleton` |
| `ReviewContractVC` | `alterationsUIDArray`, `alterationStructArray`, the table on screen | load, pick a row, export | database client, edit form, PDF |
| `EditAlterationVC` | a copy of one struct, three fields, `costWasCalculated` | calculate, update | helpers |
| `PDF Export/TPPDF.swift` | none | render rows and totals | review screen |
| Session: `LoginVC`, `CreateAccountVC`, `SpecialistNavVC`, vendored `FIRAuth` | auth user, keychain, listeners, `SpecialistSingleton`, two `currentUserUID` | sign in, create account, sign out, listeners | Firebase Auth service; main queue |
| LevelDB (vendored; the disk cache of `FirebaseDatabase`) | log, memtables, tables, manifest, versions, snapshots, writer queue | write, get, iterate, snapshot, flush, compact, recover | file system; background thread |
| `Singletons.swift` | current contract, measurements, specialist, bride | assigned by the screens | all screens |

What is hard here and hardly testable:

- the array of a contract is extended by read, append, write-back, with nothing
  that serialises two rounds;
- writes are half delivered, repeated after a lost connection, or dropped with
  the process;
- the review screen fills its table from one read per alteration, each answered
  in its own time, and starts over whenever it appears;
- the table on screen and the array behind it are updated at different moments;
- the forms keep a draft beside the text fields, a flag that vouches for the
  draft, and text that is a rounded picture of the number it replaces;
- sign-out, account creation and the auth listeners of the screens are separate
  asynchronous steps over the same singletons;
- the storage engine commits writes in groups, and flushes, merges and deletes
  files behind its readers' backs, with a crash possible at every byte.

What makes the parts correct: stored references resolve; confirmed alterations
are in their contract's array; acknowledged data is not undone; the review and
the PDF show the contract, each alteration once, at its price; a stored total
is the one its prices give; the specialist of a contract is the one signed in;
the storage engine is an atomic map that keeps what was synced.

`PROJECT.json` lists every component, the hazards at their lines with the
properties that cover them, and the source lines of each definition.

## Modules

    FirebaseClient            the database client and the server behind it
      ContractFlow            creating a contract, adding alterations, ending the app
        ContractFlowProofs    types, references, acknowledged writes, arrays, adds
        MCContractFlow        TLC instances
        ReviewContract        composed with the review screen, editing and the PDF
          ReviewContractProofs  types, rows and references under edits, quiet reviews
          MCReviewContract    TLC instances
    Catalogue                 the alterations on offer and their prices
    ContractLedger            what the two forms promise (abstract)
    AlterationForms           the add and the edit form (detailed)
      AlterationFormsProofs   types, totals, exact fields, refinement of ContractLedger
      MCAlterationForms       TLC instances, over Catalogue
    Session                   FIRAuth, its listeners and the screens around it
      SessionSteps            lemmas on its blocks and queue
        SessionProofs         the invariant of the session and its six theorems
      MCSession               TLC instance
    LevelDBVersion            lookups, levels, compactions (pure operators)
    LogFormat                 the log's record format (pure operators)
    KeyValueStore             what a LevelDB promises (abstract)
    LevelDB                   the database over the three (detailed)
      LevelDBFiles            lemmas on versions, compactions, manifest, log and recovery
      LevelDBQueue            lemmas on the writer queue and its sequence numbers
        LevelDBProofs         types, wake-ups, live files, opening after a crash
      MCLevelDB               TLC instances

**FirebaseClient.** A stored object is one node: its kind (the top-level list it
is in), the uid it refers to, its array of uids and its cost. Push ids are the
numbers `1..MaxKey` in the order they are made; `NoUID` is the empty string and
`Marker` the `"-1"` every array starts with. `puts` is the sequence of all
writes since launch; `applied`, `acked` and `released` count how far the server,
the acknowledgements and the removal from the write tree have come. `View(k)`
is the value a read gets: the server's node under the pending writes to it
(`FWriteTree`). A read whose path is covered by a pending write, or by another
observer that already has the value, is answered at once; others wait in
`listens` for the connection (the model keeps such a read waiting although a
write made meanwhile may cover it, where the library can answer it earlier). Answers go to `events`, the main queue, and each
block runs as an action of the screen it belongs to. Losing the connection sets
`applied` back to `acked`, because the client sends unacknowledged writes again;
ending the process drops everything the client holds (the app does not turn on
the disk cache). The app is the only writer of the paths it writes: a contract's
uid never leaves the process that made it, so the server's value is what this
device's writes left there. Writes still on the wire when a connection or the
process ends are taken as lost or as already applied; a security-rule rejection
of a write is not modelled.

**ContractFlow.** One action per confirm handler. `CreateContract` is both
branches of `createContractAction` after "Create" (dress, contract, bride and
measurement, in this order, and the singleton reset); `AddAlteration` is the
"Add" handler with `makeAlteration` and the read of
`updateAlterationsForContract`; `AppendCallback` is that read's block, including
the decoding failure that writes nothing. `Kill` may come at any point.

**ReviewContract.** `UidsCallback` and `StructCallback` are the blocks of
`getAlterationUIDs` and `getAlterationStructs`. `rows` is the array behind the
table and `shown` what the table drew at its last reload. A tap on a row that
the array no longer has ends the process, which is a step of `KillAll`. Blocks
of a popped controller change nothing anyone sees and are dropped.
`overlapped` is a history variable: a load began while another was open.

**Catalogue, AlterationForms, ContractLedger.** Money is in cents and exact;
`Float` arithmetic on such amounts is not modelled. A text is no number, a
number without a point or one with a point: `Float(text) ?? 3.14`,
`Int(text) ?? 314` and the forced unwraps of `EditAlterationVC` tell just these
apart. `Dollars` is `"%.0f"`, which rounds a half to even. `touched` is a
history variable. The alerts are modal, so nothing is typed while one is up. A
forced unwrap that fails ends the process before the write, and the app starts
without a contract; the ledger begins anew. The add form keeps a guess (3.14 or
314) for a field that is no number, which follows from
`AddAlterationVC` 72-74; `EditStoresWhatIsShown` says the edit form never does.

**Session.** The main queue is a variable. `FIRAuth` puts three kinds of block
on it: the notification that the user changed (`RunPost`), the callback of a
request after it (`SignedIn`, `AccountCreated`, `CallbackFails`), and the first
call of a listener when the listener is added (`RunFirstCall`). Each reads the
user when it runs, not when it was queued, and a first call comes even if its
listener was removed meanwhile. Replies of the service come in any order.
A touch may be handled before blocks that are already queued; two may not,
because the run loop drains the main queue after each event (`busy`), and while
a screen comes in UIKit ignores touches (`Settled`). `own` is
`CreateContractVC.currentUserUID`, which nothing ever clears, `rootUID` the one
of `SpecialistNavVC`, and `progress` stands for the contract, bride and
measurement singletons. `DismissLogin` is `dismiss` on a controller that may
present an alert: the alert goes and the controller stays; while the alert
leaves, a second dismiss may or may not take the controller. `gone` marks
requests whose controller was dismissed: their blocks find `self` nil or an
alert refused. `Kill` ends the process; the service may still create an account
it was asked for. `Push` and `Pop` are the alteration and review screens.
History: `told` is the last user any listener was called with; `cut` are users
whose creation was cut short; `crossed`, that a reply arrived before the callback
of another had run; `stuck`, that an alert was in the way of a dismissal.
`crossed` is an excuse, and a true one: `createAccountAction`'s block renames
`Auth.auth().currentUser` (`CreateAccountVC` 53), which is another user if a
second sign-in was answered in between. The record of a specialist counts as
written when it is handed to the database client; from there on `ContractFlow`
speaks of it.

**LevelDBVersion.** An entry is a user key, a sequence number and whether it is
a deletion; the value is the write itself. A version is the set of files of each
level. Sizes in bytes are left out: where the code compares one with a limit
(`PickLevelForMemTableOutput`, `IsTrivialMove`, `ShouldStopBefore`, the scores of
`Finalize`, the growth in `SetupOtherInputs`) the operator yields every outcome
that some size allows. `PickCompaction` therefore yields every file that the
compaction pointer or a seek count may point at.

**LogFormat.** `log::Writer` and `log::Reader`: fragments that never cross a
block, zero-filled trailers, and the reader's reassembly with its end-of-file
and corruption cases. A file is its length and its fragments. `LevelDB` uses it
in `Crash`: a log keeps its synced bytes and any number of those after them, and
what survives are the records the reader returns from these bytes. The sizes are
scaled down (blocks of 4, headers of 2, batches of 3 and more bytes), so that
records span up to four blocks and every kind of fragment, trailer and torn
header occurs.

**LevelDB.** A step is what a thread does under the mutex, or one file operation
of a stretch where the mutex is released. `Write` joins the queue; the head goes
through `MakeRoomForWrite` (`MakeRoomFails`, `MakeRoomWaits`, `SwitchMemTable`),
writes its group's record (`AddRecord`) and, in one step, syncs, inserts, sets
the sequence and pops the group (`SyncAndInsert`): a crash after the sync leaves
what a crash before it may leave. A call without a batch is
`TEST_CompactMemTable`, which waits for the flush. The background thread builds
a table and writes its record in one step (`WriteLevel0Table`; a crash between
the two leaves a file nobody names) and installs it in another. A compaction
fixes its inputs, its snapshot and its outputs when it starts, because all of
them are functions of that moment, and writes them one file at a time; a flush
may come in between (`MayFlush`). `manifest` is the state its synced records
give and the records after them, of which a crash keeps any prefix. `Open` reads
the manifest and the logs and ends in two steps a crash may separate. Failing
files (`...Fails`) leave their effect or not and set `bgError` where the code
does. `hist` and `promised` are the writes in effect and those acknowledged with
sync; `split` and `revived` mark the two defects described below.

Left out: manual compactions of a range, `reuse_logs`, a record torn in the
middle of a log or of the MANIFEST by a failed append, failing files in `Open`, the 1 ms slowdown, the sync of the
directory, closing the database, and the tables' own format. A replayed log
becomes one level-0 table.

## Runs

| Run | Bounds | Shows |
|---|---|---|
| `flow` | 10 push ids, 1 cost: two contracts with two alterations between them, or one with six | `TypeOK`, `ReferencesResolve`, `ListsWellFormed`, `AckedNeverUndone`, `WaitedAddsKept` hold |
| `flow_live` | 6 push ids | `AddsSettle` holds under `FairSpec` |
| `flow_lost` | 6 push ids | `AddedAlterationKept` fails: two adds in flight, one is lost |
| `review` | one contract with two alterations, 2 costs, 2 loads; or two contracts (10 push ids) with an alteration each, 1 cost, 3 loads (`SpecSmall` in `MCReviewContract`) | `ReviewTypeOK`, `ReferencesResolve`, `QuietReviewIsTheContract`, `RowsOfThisContract` hold |
| `review_row` | 6 push ids (one contract, two alterations), 1 cost, 2 loads | `TappedRowIsTheShownRow` fails: the array is emptied under the table |
| `review_pdf` | as above, 1 cost | `PrintedOnce` fails: two loads mix their rows |
| `forms` | one offer, two entries, three texts, one field typed into per visit, any number of visits | `FormsTypeOK`, `TotalsAgree`, `AddFormExact`, `FormsKeepTheLedger`, `EditStoresWhatIsShown` hold; the assumption `CatalogueIsExact` of `MCAlterationForms`, over the whole catalogue, too |
| `forms_stale` | one entry | `ConfirmedTotalIsCurrent` fails: `costWasCalculated` is never cleared |
| `forms_rounded` | one entry | `UneditedFieldKept` fails: a price with cents is rounded by an edit of anything |
| `session` | two users, three requests or endings of the process, one contract | `SessionTypeOK`, `QuietSessionAgrees`, `SignedOutIsBlank`, `AccountsAreRecorded`, `NamesAreTheirOwn`, `ContractsNameTheSpecialist` hold; no deadlock |
| `leveldb` | two writers, two keys, three levels, up to four sequence numbers, and one of six budgets of snapshots, forced flushes, faults and crashes | `LevelDBTypeOK`, `ReadsRight`, `LiveFilesExist`, `LevelsSorted`, `OpensAfterCrash`, `NoLostWakeup`, `ImplementsStore` hold |
| `leveldb_hop` | one writer, one key written twice, one snapshot | `EntriesNeverHop` fails: an old version ends up above a newer one |

The six runs that fail are disagreements between the code and what its own
comments or README say, each quoted in `PROJECT.json` under `findings`.

Why the bounds suffice. An overlap of read-append-write rounds needs two
alterations of a contract; two contracts, which `flow` and `review` have, are
needed to see that arrays and rows do not mix. Two loads are needed for one to
overtake the other and two alterations for their rows to interleave. Three loads
review one contract, then the other, and load the second again after an edit,
while answers for the first are still to come; one alteration each tells whose a
row is, and uses ids 1-4, 5, 6-9 and 10. `review` has both cases: `SpecSmall` is
`SpecAll` without the steps that leave both of them, as the product of two
contracts, two alterations and two costs is more than the first question or the
second needs. The forms are a product of independent fields, and the
flag is shared: one field changed at the wrong moment is enough, and repeated
visits reach combinations. The texts are one of each class, the one with a point
having half a dollar, which is where rounding bites. The shortest trace of
`flow_lost` has both reads answered from the write tree before either block
runs; the wide window in practice is a contract whose creation is acknowledged
and whose reads wait for a slow connection. The model has both.

Three requests let two replies cross, a reply be late for a screen that is gone,
and a sign-in follow a cancelled sign-out; two users are what names can be
confused between. LevelDB needs two writers for a group and a lost wake-up, two
keys for ranges that do and do not overlap, three levels for a level, its parent
and its grandparent, two level-0 files to trigger a compaction and to stop
writes, and a memtable that one entry fills. Its difficulties are combined in
six budgets instead of all at once (crashes with deletions; flushes forced under
compactions; a snapshot or a pinned version; two crashes, the second also
during recovery; two readers; a fault and a crash). The bounds end every
behaviour of it, so its run does not look for deadlocks; `NoLostWakeup` says what
matters of them. The writers are symmetric: no action tells them apart.

Two refinements: the forms implement `ContractLedger`, and the database
implements `KeyValueStore`, whose variables are what a read returns now, the
writes in effect and the writes promised. `ImplementsStore` says that nothing
but a commit or a crash changes what any read returns: a flush, a compaction, a
move, a failing file and a recovery are invisible.

Two defects of LevelDB. `leveldb_hop` is a finding: a compaction whose output is
cut between two versions of a key (a snapshot keeps both) and a later one that
takes the first file alone; `split` excuses `ReadsRight` afterwards. The other
contradicts no text: a flush nested in a compaction (`db/db_impl.cc` 922) is
tried again after a failed manifest sync, although the error is recorded, and
the manifest may come to list the same entries in two overlapping files of one
level. The run's budgets do not reach it, but one with puts of both keys, three
sequence numbers, a forced flush, a fault and a crash does, in 26 steps;
`revived` therefore excuses `LevelsSorted` afterwards.

Fairness (`FairSpec`). The main queue runs its blocks (weak fairness of
`AppendCallback`). The client retries the connection for ever with bounded
back-off (weak fairness of `Reconnect`). A connection may drop before anything
gets through, but not every single time: strong fairness of `ServerApply`,
`PutAcked` and each `ListenAnswered`. Nothing is assumed of the user or of
`Kill`; `AddsSettle` excuses adds whose process was ended.

## Proofs

All proofs are for every value of the constants. Each theorem has an inductive
invariant that TLC checked on a small instance before it was proved.

*ContractFlowProofs.* `TypeCorrect` is `Spec => []TypeOK`; its only delicate
part is that `Latest`, a `CHOOSE`, is well defined on non-empty sets of
positions (`LatestExists`, from the well-founded order on the naturals).
`ReferencesAlwaysResolve` is `Spec => []ReferencesResolve`. The property alone
is not inductive: it says nothing of the writes on their way. The invariant
`IInv` says that everything a write refers to is stored or made by an *earlier*
write of the queue (`PutsClosed`), that a push id is only ever one object
(`OneObjectPerKey`, `Fresh`), that what this connection applied is stored
(`AppliedStored`), that what the server stores refers only to what the server
stores (`ServerClosed`), and that reads, events and the current contract are
known in the same sense (`ReadsClosed`, `EventsClosed`, `CurrentKnown`).
Because writes are applied in queue order, from any restart point at or before
the last applied one, the next write always finds its references stored. The
lemmas `...Carried` say that what is known stays known under all of this, and
there is one lemma per action. Ending the process keeps the server, which is
closed by itself. The only assumption is `MaxKeyAssumption`.

`AckedWritesStay` needs no more than `NotUndone`: after write *j* was applied
the path holds the array of *j* or of a later write, also while a new connection
repeats writes. `ListsAlwaysWellFormed` rests on `LInv`: the uid of a read that
waits, or of an event whose block has not run, is in no array anywhere, and no
two of them have the same uid; so each block appends its uid once, to an array
without it, however old that array is. `WaitedAddsAreKept` combines the three in
`WInv`: `View` of a contract made since launch is that contract with the array
of its last write (`ViewIsLast`, from `NotUndone` and `AppliedStored`), and while
alterations are added one at a time only one append to the contract is pending
(`OnePending`, from `LInv`), so the array its event carries is still the last one
when its block runs (`KeptAt`). Where additions overlap both facts fail, which is
`flow_lost`.

*ReviewContractProofs.* The theorems are about `SpecAll`, flow and review
together. `RInv` adds to `IInv` that outside the review only appends are open
(`OnlyAppends`), that every open read of the screen is of the contract under
review or of one of its alterations (`OfReview`) and every answer fits
(`FitsReview`), and that rows and the row being edited are such alterations
(`RowsKnown`). A late answer cannot bring in another contract's alteration
because the arrays name only the contract's own (`ArrayKnown`) and a push id is
one object. An edit writes the same identity again, so `IInv` survives it and
`EditedReferencesResolve` follows; `RowsAlwaysOfThisContract` is read off
`RowsKnown`.

`ReviewedListsWellFormed` and `QuietReviewsAreTheContract` rest on `QInv`. It
lifts `LInv` to the composed system: only reads that append count as pending,
and the review's reads leave those in place, also when they are dropped. Then, as long as no round of loading began before the last was over, the
screen is in one of two phases (`InPhase`). Either the contract's array is
awaited and no alteration is being read. Or the uids of the array
are parted into rows, answers not yet handled and reads not yet answered, each
uid in one of the three and once (`Parted`: the array has no duplicates, by
`LInv`), and rows and answers carry the cost last given (`CostsCurrent`). A
reply shows what the client sees at that moment; what it sees of an alteration
is its last write, because an acknowledged write is never undone
(`AlterationStays`), and only the edit form writes costs, whose return starts a
new round. With nothing open the last two parts are empty and the rows are all
of the array. Overlapping rounds mix their rows, which is
`review_pdf`; `overlapped` excuses them.

*AlterationFormsProofs.* The invariant `FormsInv` adds to `TotalsAgree` that the
flag vouches for the draft (`DraftVouched`), that only a calculated draft is up
for confirmation (`OnlyCalculatedConfirmed`) and that an edit's draft is the
offer of its row (`DraftOfRow`). From it follow `FormsTypeCorrect`,
`TotalsAlwaysAgree`, the action property `EditStoresOnlyWhatIsShown` and the
refinement `FormsImplementLedger`. The assumptions are that offers and texts are
of their types (`OffersAssumption`, `TextsAssumption`). `AddFormAlwaysExact` has
the hypothesis `ExactOffers`, that prices are whole dollars: a field shows its
price rounded to dollars, and without the hypothesis the theorem is false.
`CatalogueIsExact` in `MCAlterationForms` evaluates it on the app's whole
catalogue.

*SessionProofs.* One invariant `IInv` of fourteen parts serves six theorems. The
parts that carry the argument say what is still to come: a listener that does
not know the signed-in user has a notification or its first call on the queue
(`WillHear`); a removed listener's late first call is followed by that of the
listener that came after it (`FirstCalls`); a contract listener that knows the
user has told the screen and the singleton (`ContractHeard`), a login listener
that was told of one is only still there behind an alert (`LoginHeard`); and
requests, callbacks and alerts belong to the screens in front (`Waiting`). With
an empty queue nothing is still to come, which is `QuietSessionsAgree`. The
excuse `crossed` in it is needed for `own` too, which three requests do not
show: with five, the late first call of a removed contract listener can set
`own` to the user of a crossed reply. The proof has no such bound and found it.

*LevelDBProofs.* `QueueOK` is the writers' discipline: the queue names no writer
twice, its head is the only one awake in it, and a record is logged for a group
at its front. `WorkIsScheduled` says that work that is due is scheduled unless
there is an error (`DueIsScheduled`), and that whoever waits for the background
thread waits for one that is scheduled and without an error (`Awake`). A writer
that must wait in `MakeRoomForWrite` finds an immutable memtable or too many
level-0 files; that the latter makes a compaction due needs
`L0_StopWritesTrigger >= L0_CompactionTrigger` (12 and 4 in `db/dbformat.h`).
This gives `NoWakeupIsEverLost`. `ManifestFollows` says that until an error the
manifest's synced records give the current version and the only record after
them is the one being installed; `FilesThere` that the files of the current
version, of the manifest's, of its unsynced records, of pinned versions and of a
compaction's inputs and outputs are on disk. Obsolete files are deleted only
without an error, when by `ManifestFollows` the manifest names no more than the
version just installed; after an error nothing is deleted, and so whatever prefix
of the records a crash leaves names files that are there. This gives
`LiveFilesAlwaysExist` and `AlwaysOpensAfterCrash`. The assumptions
(`LevelDBAssumption` and the one of `LevelDBVersion`) are the types of the
constants (jobs and budgets included), at least two levels, positive triggers
and their order.

`LevelsAlwaysSorted` rests on a second invariant, `DInv`, on top of the first; TLC checked it on the states of `leveldb`. Its parts:

- `CallsOK`: the sequence number last given and those the queue still needs are
  together within the bound, so a commit never passes it however its group is
  made up.
- `DataOK`: logs, tables, memtables and history hold entries. That a log read
  back after a crash holds only batches that were written to it is proved from
  `LogFormat`'s writer and reader, turn by turn, for any length and any cut.
- `RecordsOK`, `NumbersOK`: the records of the manifest are well formed, their
  counters grow along it, and a file's number is below the next one, in memory,
  on disk and in whatever prefix a crash leaves.
- `BoundsOK`: every file named in a version, a record or a compaction has the
  smallest and largest key of its table; a table with the number of a named file
  is not written again.
- `LevelsOK`: unless a failed record was read back, the recorded version is the
  current one and sorted, the version about to be installed is sorted, and the
  compaction at work fits: its inputs span the entries still to be written and
  the outputs, which are in order, and the outputs have room among the files of
  the parent level that are not inputs (`Room`), also in the version that a flush
  nested in the compaction is about to install.

The last one is the heart of it. A nested flush may put its file on a level where
the compaction's outputs will go; that it does not is because
`PickLevelForMemTableOutput` stops above the first level it overlaps and the
inputs are still in the version. Sortedness alone says nothing of that, and is
not inductive.

`LevelDBTypeCorrect` needs a little more, `TInv`: snapshots are not newer than
the last sequence number and none outlives the database (`SnapshotsOK`), what
readers pin keeps its bounds (`PinnedOK`), a compaction is in one of its phases
(`PhasesOK`), and every log named by a record or by the installed state is there
(`LogsThere`). The last holds because a record takes its log from the state it
was written in, logs are deleted only below the log of the record being
installed, and that installation takes all earlier records with it. From the
three together every variable has its type (`TypesFollow`).

Where a definition is a recursive function (`Picked`, the folds of the manifest's
records and of recovery), what it keeps is proved by induction in first-order
form: the set of naturals up to which the claim holds contains zero and
successors (`SetInduction`, `NatSetInduction`).

Only model-checked: `ReadsRight` and the refinement `ImplementsStore`, which
follows from it and from how commits and crashes change the history. They need
an invariant on contents, not only on keys and bounds: for every key and every
snapshot held, the newest visible entry is found first along memtables, level 0
and the levels, while a compaction drops what its own snapshot excuses and a
recovery builds the levels anew from logs. That invariant is not stated yet; the
bounds and the order in `DInv` are what it would start from. The liveness
property `AddsSettle` is beyond this prover, and so is what `LogFormat` reads
back exactly (the proofs say that it is some of what was written, TLC which).

## Not modelled

- Controllers under `NotMVP` (no storyboard scene reaches them), theme, keyboard
  and layout code, the PDF's wording and tax line, the share sheet.
- `createContractAction` with no measurements presents its alert and goes on to
  present a second one, which UIKit refuses while the first is up; the model has
  the confirmed path only.
- In the session: a keychain that fails, a sign-out forced by an expired token,
  password and address checks (an accepted or a refused request is all that is
  told apart).
- In LevelDB: what the section on it lists, and the block and table formats,
  filters, caches, merging and backward iterators, `repair.cc`, the C interface
  and the POSIX environment.
- The other vendored libraries. Of the repository's C and C++ files, all of them
  vendored, the models cover the part of LevelDB where its concurrency and
  recovery are; most of the rest are public headers of the Firebase pods, which
  only declare, and nanopb's encoder and decoder, which the app reaches through
  analytics alone. The app's own code is Swift and is modelled screen by screen.

## Plan

1. Done: the app's modules, `Session`, `LevelDBVersion`, `LogFormat`, `LevelDB`,
   `KeyValueStore`, and the proofs above.
2. Proofs to come: `ReadsRight` and `ImplementsStore` of `LevelDB`, over `DInv`.
3. Perhaps: LevelDB's iterators (merging, both directions) against a reference.
