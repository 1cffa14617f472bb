SPECIFICATION LeaseFairSpec
CONSTANTS
  c1 = c1
  c2 = c2
  c3 = c3
  Claims <- MCClaims
  NoClaim = NoClaim
  Lease = 3
  Delay = 1
  Stall <- MCStall
INVARIANTS
  PunctualHolderKeepsRow
PROPERTIES
  AbandonedLeaseEnds
