\* A volume of six clusters of four units, of which four can be allocated.
CONSTANTS
  h1 = h1
  h2 = h2
  Files = {"a", "b"}
  Handles = {h1, h2}
  NumClusters = 6
  BlocksPerCluster = 2
  BlockLen = 2
  Layouts <- OneFile
  Sizes = {0, 3, 9}
  Positions = {0, 4, 6}
  Lengths = {3}
  Hazards = {}
  MaxFaults = 1
  MaxOps = 5
SYMMETRY AnyHandle
SPECIFICATION Spec
INVARIANTS Sound NoLeak
PROPERTIES ImplementsStore
