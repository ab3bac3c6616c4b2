CONSTANTS
  f1 = f1
  f2 = f2
  f3 = f3
  Files = {f1, f2, f3}
  NoPath = NoPath
  MaxVisits = 4
SYMMETRY Symmetry
SPECIFICATION Spec
INVARIANTS
  TypeOK
  IndicesInside
  ShownIsCurrent
PROPERTIES
  KeepsPromise
