\* Two specialists; three requests and restarts between them.
CONSTANTS
  Users = {anna, berta}
  NoUser = NoUser
  Placeholder = Placeholder
  MaxEvents = 3
  MaxContracts = 1
SPECIFICATION Spec
SYMMETRY Symmetry
INVARIANTS
  SessionTypeOK
  QuietSessionAgrees
  SignedOutIsBlank
  AccountsAreRecorded
  NamesAreTheirOwn
PROPERTY ContractsNameTheSpecialist
