CONSTANTS
  k1 = k1
  k2 = k2
  k3 = k3
  e1 = e1
  e2 = e2
  NULL = NULL
  Keys = {k1, k2, k3}
  Elements = {e1, e2}
  Digest <- MCDigest
  InitialCapacity = 2
  MaxCapacity = 8

SPECIFICATION TableSpec
CHECK_DEADLOCK FALSE

INVARIANTS TableTypeOK ProbeStops ListingFits ListingFilled
PROPERTIES MapSpec PutReturns
