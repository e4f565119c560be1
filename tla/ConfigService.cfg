SPECIFICATION Spec
CONSTANTS
  Publishers = {p1, p2}
  Getters = {g1}
  Watchers = {w1}
  Keys = {k1, k2}
  DevKeys = {k1}
  NoKey = NoKey
  Deps = {"mysql", "redis", "etcd", "mq"}
  MaxVersion = 3
SYMMETRY Symmetry
INVARIANTS
  OwnVersions
  FoundStaysFound
  QuietKeyAgrees
  WatchIsComplete
