SPECIFICATION Spec
SYMMETRY Symmetry
CONSTANTS
  NULL = NULL
  Width <- MCWidth
  Address = {"net"}
  MaskLen = 3
  MaxDigits = 2
  UsecDigits = 2
  MacGroups <- MCMacGroups
  UuidGroups <- MCUuidGroups
  Varspec <- MCSpec
  Text <- MCText
  Others <- MCNumbers
  Cell = {c1, c2, c3, c4}
  Said = {"a"}
  MaxLen = 2
  Failing = {"set", "copy"}
  Line <- MCLine
  Start = 1
  Threshold = 4
  SizeMax = 20
  Lengths = {0, 1, 3}
  MaxText = 12
  MayFail = TRUE
INVARIANT Admitted
INVARIANT PrintedIsRead
INVARIANT ComparesNumbers
INVARIANT OwnsItsStrings
INVARIANT EscapedIsOneToken
INVARIANT BufferHolds
CHECK_DEADLOCK FALSE
