SPECIFICATION Spec
CONSTANTS
  Events = {"a", "b"}
  Nodes = {n1, n2, n3}
  NULL = NULL
INVARIANT ListInv
PROPERTY ImplementsFifo
