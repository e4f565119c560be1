SPECIFICATION Spec
CONSTANTS
  Clients = {c1, c2}
  Nobody = Nobody
  Objects = {o1, o2}
  None = None
SYMMETRY Symmetry
INVARIANTS
  TypeOK
  OneLiveState
  WatchersUpToDate
  OneLeaderPerState
