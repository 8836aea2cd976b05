SPECIFICATION FairSpec
CONSTANTS
  Keys = {k1, k2, k3}
  Values = {v1, v2}
  NoValue = NoValue
  MaxEntries = 2
  Expiry = 2
  MaxTime = 6
INVARIANTS TypeOK MapMatchesList OldestAtBack WithinLimit
PROPERTIES KeepsContract ExpiredGoes
