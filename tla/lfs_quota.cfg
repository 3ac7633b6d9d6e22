SPECIFICATION Spec
CONSTANTS
  large = large
  None = None
  Handler = {h1, h2}
  Path = {1, 2}
  First = {1}
  OID = {large}
  Size <- Sizes
  Policies <- AnyPolicy
  UploadLimit = 3
  MaxBody = 2
SYMMETRY Symmetry
INVARIANTS StagingWithinQuota ReservationsReturned
PROPERTIES PublishedUnderPolicy
