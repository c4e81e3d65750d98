SPECIFICATION FairSpec
CONSTANTS
  k1 = k1
  k2 = k2
  k3 = k3
  Keys = {k1, k2, k3}
  NoKey = NoKey
  Vals = {v1, v2}
  NoVal = NoVal
  NoResult = NoResult
  Hash <- MCHash
  MIN_TABLE_SIZE = 2
  MaxCapacity = 8
INVARIANTS
  TypeOK
  ProbeEnds
  CountsExact
  KeysReachable
PROPERTIES
  CallsReturn
  ImplementsFiniteMap
