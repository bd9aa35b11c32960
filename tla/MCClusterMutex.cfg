SPECIFICATION FairSpec
CONSTANTS
  Procs = {p1, p2, p3, p4}
  Nobody = Nobody
  Abandoned = Abandoned
  Broken = Broken
  Ttl = 3
  RefreshInterval = 1
  MaxFaults = 2
  MaxLapses = 2
INVARIANTS TypeOK OneOwner LapsesBoundOwners
PROPERTIES ImplementsMutex EventuallyOwned
