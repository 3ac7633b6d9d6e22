SPECIFICATION Spec
CONSTANTS
  alice = alice
  bob = bob
  k1 = k1
  w1 = w1
  w2 = w2
  r1 = r1
  private = private
  public = public
  User = {alice}
  Key = {k1}
  Policy = {private, public}
  Founder = alice
  Writer = {w1}
  Reader = {r1}
  Flag <- Flagged
  MaxRev = 4
  MaxHash = 3
  None = None
INVARIANTS RetiredSecretsStayRetired
