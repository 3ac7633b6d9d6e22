SPECIFICATION Spec
CONSTANTS
  alice = alice
  bob = bob
  k1 = k1
  w1 = w1
  w2 = w2
  r1 = r1
  private = private
  public = public
  User = {alice, bob}
  Key = {k1}
  Policy = {private}
  Founder = alice
  Writer = {w1, w2}
  Reader = {r1}
  Flag <- Unflagged
  MaxRev = 3
  MaxHash = 1
  None = None
SYMMETRY Writers
INVARIANTS TypeOK LoadIsCurrent
PROPERTY OwnersGovern
