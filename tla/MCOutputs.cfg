CONSTANTS
  k1 = k1
  k2 = k2
  k3 = k3
  None = None
  MaxScripts = 3
  MaxTrees = 3
  Keys <- MCKeys
  OffCurve <- MCOffCurve
  Odd <- MCOdd
  Versions <- MCVersions
SPECIFICATION Spec
INVARIANTS
  OutputsCanBeSpent
  AddressMeansItsScript
