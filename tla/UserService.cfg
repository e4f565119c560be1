SPECIFICATION Spec
CONSTANTS
  Handlers = {h1, h2, h3}
  Names = {n1, n2}
  NoName = NoName
  Deps = {"mysql", "redis"}
  MaxUsers = 2
INVARIANTS
  StoresAgree
PROPERTY
  ImplementsDirectory
