SPECIFICATION Spec
CONSTANTS
  Requests <- MCRequests
  CommandIds <- MCIds
  Items <- MCItems
  Estimates = {4}
  MaxBytes = 1
  MaxParts = 2
INVARIANTS
  LengthAnnounced
