\* A behaviour ends when the resources are used up: no deadlock check.
SPECIFICATION Spec
CONSTANTS
  Objects = {o1, o2, o3}
  Resources = {n1, n2, n3, n4}
  NULL = NULL
SYMMETRY Symmetry
CHECK_DEADLOCK FALSE
INVARIANTS TypeOK PointersAreLive MisusesAreKnown NothingElseLeaks
