\* Three keys, two values, two iterators; tables of one, two and four.
CONSTANTS
  v1 = v1
  v2 = v2
  i1 = i1
  i2 = i2
  Keys <- ThreeKeys
  Hash <- ThreeHash
  Values = {v1, v2}
  Missing = Missing
  InitSize = 1
  Iterators = {i1, i2}
SPECIFICATION Spec
SYMMETRY Symmetry
INVARIANTS
  TablesAgree
  WalkComplete
PROPERTIES
  NeverTwice
  ImplementsMap
